---- MODULE Spec2Model ----
(***************************************************************************)
(* Model of the Facebook comment crawler (src/src/crawler.py).             *)
(*                                                                         *)
(* Part 1 (specification Spec): CommentCrawler._expand_all_comments, the   *)
(* navigation and convergence loop: open the comment section, scroll and   *)
(* click "load more" controls, expand reply threads, expand "see more".    *)
(* The browser page is the environment: what a scroll reveals, what a      *)
(* selector matches and whether an element operation raises are chosen     *)
(* nondeterministically at the call that asks.                             *)
(*                                                                         *)
(* Part 2 (specification ExtractSpec): CommentCrawler._extract_comments    *)
(* and _extract_single_comment on a snapshot of the page's DOM: comment    *)
(* discovery, author and body extraction, URL removal, whitespace          *)
(* collapse, the drop conditions and the records returned.                 *)
(*                                                                         *)
(* Part 3 (specification PostInfoSpec): CommentCrawler._extract_post_info  *)
(* on a loaded post page: the post's author, its content and the limit on  *)
(* the content's length.                                                   *)
(*                                                                         *)
(* Part 4 (specification MainSpec): the post loop of main.py with          *)
(* CommentCrawler.crawl_post_comments, the exporters' buffers, the final   *)
(* export and the KeyboardInterrupt handler. The steps of one post are the *)
(* calls of crawl_post_comments; their outcomes are those parts 1-3        *)
(* establish. Dicts are objects of a heap, so that sharing is visible.     *)
(*                                                                         *)
(* Part 5 (specification LoginSpec): FacebookAuth.login (src/src/auth.py)  *)
(* with the cookie store of src/src/utils.py. The browser and the person   *)
(* in front of it are the environment: where a navigation, a click or a    *)
(* manual step leaves the page is chosen nondeterministically.             *)
(*                                                                         *)
(* Part 6 (specification ProfileSpec): ProfileCrawler.get_posts_from_      *)
(* profile (src/src/profile_crawler.py), the loop that scrolls a profile   *)
(* and collects post URLs. What the page shows at each scan is chosen      *)
(* nondeterministically.                                                   *)
(*                                                                         *)
(* Part 7 (specification ClickSpec): the three click passes of crawler.py  *)
(* element by element: _open_comment_section, _expand_all_replies and      *)
(* _expand_see_more_in_comments. Part 1 treats them as steps of the        *)
(* convergence loop; here the elements, their texts and the operations on  *)
(* them are explicit.                                                      *)
(***************************************************************************)
EXTENDS Integers, Sequences, FiniteSets, TLC

(***************************************************************************)
(* Bounds of the model.                                                    *)
(***************************************************************************)
MaxBudget  == 7   \* Config.MAX_SCROLL_ATTEMPTS ranges over 0..MaxBudget
MaxTarget  == 5   \* max_comments ranges over None, 0..MaxTarget
MaxVisible == 6   \* comment containers the page can show
MaxReveal  == 2   \* new comments one scroll of an arbitrary page can reveal
MaxButtons == 2   \* elements one selector query can match
MaxNodes   == 3   \* containers of a page built from the palette
MaxAtoms   == 3   \* atoms a generated comment body is made of
MaxStamps  == 2   \* link/span timestamp candidates of a generated comment
MaxContents == 2  \* content-bearing nodes of a generated post page
MaxPosts   == 2   \* post URLs of one run
MaxRecords == 2   \* records one post's extraction returns
MaxScrollLimit == 5  \* Config.PROFILE_SCROLL_LIMIT ranges over 0..MaxScrollLimit
MaxWanted == 3  \* max_posts ranges over 1..MaxWanted
MaxMatches == 51  \* elements one reply selector can match

(***************************************************************************)
(* Program constants.                                                      *)
(***************************************************************************)
SCROLLED_ENOUGH == 5    \* crawler.py:175  scroll_attempts > 5
REPLY_LIMIT     == 50   \* crawler.py:240  buttons[:50]

\* crawler.py:194-201, 228-235, 261-268: six selectors per expansion function
VIEW_MORE_SELECTORS ==
    << "text=/View more comments/i", "text=/Lihat komentar lainnya/i",
       "text=/View previous comments/i", "text=/Lihat komentar sebelumnya/i",
       "[aria-label*=more comment]", "[aria-label*=komentar lainnya]" >>
REPLY_SELECTORS ==
    << "text=/View.*repl/i", "text=/Lihat.*balas/i", "text=/\\d+ repl/i",
       "text=/\\d+ balas/i", "[aria-label*=repl]", "[aria-label*=balas]" >>
SEE_MORE_SELECTORS ==
    << "text=/See more/i", "text=/Lihat selengkapnya/i",
       "div[role=button]:has-text(See more)",
       "div[role=button]:has-text(Lihat selengkapnya)",
       "[aria-label*=See more]", "[aria-label*=Lihat selengkapnya]" >>
\* crawler.py:305-309
COUNT_SELECTORS ==
    << "[role=article]", "div[aria-label*=Comment]", "div[aria-label*=Komentar]" >>

Min(a, b) == IF a <= b THEN a ELSE b

\* Optional[int]: <<>> is None, <<n>> is the integer n.
None == << >>
Some(n) == << n >>
\* Python truthiness of an Optional[int] (crawler.py:168  if max_comments:)
Truthy(opt) == opt # None /\ opt[1] # 0

VARIABLES
    pc,                    \* position in _expand_all_comments
    max_scrolls,           \* Config.MAX_SCROLL_ATTEMPTS as read at line 155
    max_comments,          \* the argument: None or an integer
    scroll_attempts,       \* the loop counter
    more_comments_clicked, \* result of the last _click_view_more_buttons
    clicked,               \* local of _click_view_more_buttons
    current_count,         \* last result of _count_visible_comments (None: not taken)
    sel,                   \* index of the selector being processed (0: none)
    btn,                   \* elements of that selector's result already processed
    visible,               \* page: comment containers now in the DOM
    markup,                \* page: the count selector its comment containers match (0: none)
    feed,                  \* page: None = arbitrary; <<k>> = the synthetic feed that starts
                           \*       empty, reveals exactly k comments per scroll and
                           \*       whose scroll and count operations never raise
    calls,                 \* history: the steps of _expand_all_comments, in order
    exit,                  \* history: why the scroll loop ended
    unattempted,           \* history: matched elements that were never attempted
    swallowed,             \* history: an element operation raised and was swallowed
    ever_clicked,          \* history: some iteration clicked a "load more" control
    \* ---- part 2: _extract_comments ----
    epc,                   \* position in _extract_comments ("idle": not entered)
    dom,                   \* page: the comment-like containers of the DOM, in order
    comment_elements,      \* the discovery result
    idx,                   \* the enumerate index of the element being processed
    author_name,           \* locals of _extract_single_comment after line 447
    author_url,
    comment_text,
    comments,              \* the list _extract_comments returns
    query_raised,          \* history: a discovery query raised
    raised_at,             \* history: indexes whose extraction raised
    \* ---- part 3: _extract_post_info ----
    ipc,                   \* position in _extract_post_info ("idle": not entered)
    post_page,             \* page: its URL, what the author selectors and the
                           \*       content selectors match
    post_info,             \* the dict built at lines 60-65
    untruncated,           \* history: post_content as it entered line 101
    info_raised,           \* history: a page operation raised (caught at line 106)
    \* ---- part 4: main.py post loop ----
    mpc,                   \* position in main() ("idle": not entered)
    post_urls,             \* the URLs to crawl
    post_n,                \* idx of the for loop (0: not started)
    csv_active,            \* csv_exporter is not None
    json_active,           \* json_exporter is not None
    csv_data,              \* csv_exporter.comments_data (references to dicts)
    json_data,             \* json_exporter.comments_data
    csv_file,              \* what csv_exporter.export wrote (<< >>: nothing)
    json_file,             \* what json_exporter.export wrote
    heap,                  \* the dict objects: heap[ref] is the dict's content
    post_info_ref,         \* post_info of crawl_post_comments (0: none)
    post_comments,         \* the list crawl_post_comments returns
    attempted,             \* history: the URLs page.goto was called with
    returned,              \* history: the lists crawl_post_comments returned
    nav_failed,            \* history: posts whose navigation raised
    inner_failed,          \* history: posts with an exception caught inside
                           \*          post-info extraction, expansion or extraction
    contexts,              \* history: the PostContext values computed, with their post
    changed,               \* history: the dict a caller changed (0: none)
    interrupt_swallowed,   \* history: a KeyboardInterrupt did not propagate
    \* ---- part 5: FacebookAuth.login ----
    lpc,                   \* position in login ("idle": not entered)
    use_saved_cookies,     \* the argument
    store,                 \* the cookie file: "none", "empty", "saved", "corrupt", "fresh"
    page_id,               \* self.page: 0 = None, 1 = page of the cookie context,
                           \*            2 = page of the fresh context
    page_state,            \* what self.page shows: URL, login form, captcha frame
    attempt,               \* the retry counter of lines 149-166
    handed,                \* the page login returned (0: none)
    checked,               \* history: the last _is_logged_in call: page and result
    ever_true,             \* history: some _is_logged_in call returned True
    store_ops,             \* history: the reads and writes of the cookie file
    \* ---- part 4, the start of main() ----
    page_handle,           \* page = auth.login(browser): FALSE until it returned
    \* ---- part 6: ProfileCrawler.get_posts_from_profile ----
    ppc,                   \* position in get_posts_from_profile ("idle": not entered)
    wanted,                \* max_posts after line 35
    scroll_limit,          \* self.scroll_limit
    collected,             \* the set post_urls of line 49
    scroll_count,
    no_new_posts_count,
    previous_count,
    post_urls_list,        \* the list returned
    stop_reason,           \* history: why the loop ended
    empty_scans,           \* history: the scans in a row that added no URL
    scans,                 \* history: the scans made
    \* ---- part 7: the click passes ----
    cpc,                   \* the pass being run and its position ("idle": none)
    cur_sel,               \* index of the selector being processed
    cur_btn,               \* index of the element being processed (0: none yet)
    matched,               \* _expand_all_replies: len(buttons) of the current query
    buttons,               \* _expand_see_more_in_comments: the current query's result
    element_ops,           \* history: the operations called on the current element
    clicks,                \* history: click() calls for the current selector
    clicked_elements,      \* history: the elements click() was called on
    tried,                 \* history: what each strategy tried so far met
    clicked_by,            \* history: the strategies whose match was clicked
    open_result,           \* what _open_comment_section returned (None: not yet)
    \* ---- part 5, the verification loop ----
    verifications          \* history: what each attempt of auth.py:149-163 found

expansion == << pc, max_scrolls, max_comments, scroll_attempts,
                more_comments_clicked, clicked, current_count, sel, btn,
                visible, markup, feed, calls, exit, unattempted, swallowed,
                ever_clicked >>
extraction == << epc, dom, comment_elements, idx, author_name, author_url,
                 comment_text, comments, query_raised, raised_at >>
postinfo == << ipc, post_page, post_info, untruncated, info_raised >>
session == << mpc, post_urls, post_n, csv_active, json_active, csv_data,
             json_data, csv_file, json_file, heap, post_info_ref,
             post_comments, attempted, returned, nav_failed, inner_failed,
             contexts, changed, interrupt_swallowed >>
authentication == << lpc, use_saved_cookies, store, page_id, page_state,
                    attempt, handed, checked, ever_true, store_ops >>
profile == << ppc, wanted, scroll_limit, collected, scroll_count,
             no_new_posts_count, previous_count, post_urls_list, stop_reason,
             empty_scans, scans >>
clicking == << cpc, cur_sel, cur_btn, matched, buttons, element_ops, clicks,
              clicked_elements, tried, clicked_by, open_result >>
vars == << expansion, extraction, postinfo, session, authentication,
          page_handle, profile, clicking, verifications >>
outsideExpansion == << extraction, postinfo, session, authentication,
                      page_handle, profile,
    clicking, verifications >>
outsideExtraction == << expansion, postinfo, session, authentication,
                       page_handle, profile,
    clicking, verifications >>
outsidePostInfo == << expansion, extraction, session, authentication,
                     page_handle, profile,
    clicking, verifications >>
\* everything the post loop leaves alone (the page handle included)
outsideSession == << expansion, extraction, postinfo, authentication,
                    page_handle, profile,
    clicking, verifications >>
outsideLogin == << expansion, extraction, postinfo, session, page_handle,
                  profile,
    clicking, verifications >>
outsideProfile == << expansion, extraction, postinfo, session, authentication,
                    page_handle,
    clicking, verifications >>
outsideClicking == << expansion, extraction, postinfo, session, authentication,
                     page_handle, profile, verifications >>
\* everything the verification loop of login leaves alone
outsideVerify == << expansion, extraction, postinfo, session, page_handle,
                   profile, clicking >>
outsideMain == << expansion, extraction, postinfo, authentication, profile,
    clicking, verifications >>

control == << pc, sel, btn >>
loopVars == << scroll_attempts, more_comments_clicked, clicked, current_count >>
pageVars == << visible, markup, feed >>
config == << max_scrolls, max_comments >>
history == << calls, exit, unattempted, swallowed, ever_clicked >>

(***************************************************************************)
(* The page.                                                               *)
(***************************************************************************)
\* page.query_selector_all(COUNT_SELECTORS[i]): the comment containers when the
\* page's markup matches that selector, nothing otherwise.
QueryCount(i) == IF i = markup THEN visible ELSE 0

\* _count_visible_comments (crawler.py:301-318): the size of the first
\* non-empty selector result, 0 when none matches.
RECURSIVE CountFrom(_)
CountFrom(i) ==
    IF i > Len(COUNT_SELECTORS) THEN 0
    ELSE IF QueryCount(i) # 0 THEN QueryCount(i)
    ELSE CountFrom(i + 1)
CountVisibleComments == CountFrom(1)

\* What one scroll may reveal: exactly k on the synthetic feed <<k>>,
\* anything up to MaxReveal on an arbitrary page.
Reveals ==
    IF feed = None THEN { r \in 0..MaxReveal : visible + r <= MaxVisible }
    ELSE { feed[1] }
\* What a click on a "load more" control may reveal.
ClickReveals ==
    IF feed = None THEN { c \in 0..1 : visible + c <= MaxVisible } ELSE { 0 }
\* Whether a scroll or a count query may raise on this page.
MayRaise == IF feed = None THEN BOOLEAN ELSE { FALSE }

\* None of the click passes of part 7 is being run.
ClickingIdle ==
    /\ cpc = "idle"
    /\ cur_sel = 0 /\ cur_btn = 0
    /\ matched = 0 /\ buttons = << >>
    /\ element_ops = << >>
    /\ clicks = 0 /\ clicked_elements = {}
    /\ tried = << >> /\ clicked_by = << >>
    /\ open_result = None

\* _extract_comments has not been entered.
ExtractionIdle ==
    /\ epc = "idle"
    /\ dom = << >>
    /\ comment_elements = << >>
    /\ idx = 0
    /\ author_name = "" /\ author_url = "" /\ comment_text = ""
    /\ comments = << >>
    /\ query_raised = FALSE
    /\ raised_at = {}

\* crawler.py:60-65, before self.page.url is read
NoPostInfo ==
    [ post_url |-> "", post_author |-> "", post_content |-> "",
      post_timestamp |-> "" ]
NoPage == [ url |-> "", authors |-> << >>, contents |-> << >> ]
PostInfoIdle ==
    /\ ipc = "idle"
    /\ post_page = NoPage
    /\ post_info = NoPostInfo
    /\ untruncated = ""
    /\ info_raised = FALSE

SessionIdle ==
    /\ mpc = "idle"
    /\ post_urls = << >> /\ post_n = 0
    /\ csv_active = FALSE /\ json_active = FALSE
    /\ csv_data = << >> /\ json_data = << >>
    /\ csv_file = << >> /\ json_file = << >>
    /\ heap = << >> /\ post_info_ref = 0 /\ post_comments = << >>
    /\ attempted = << >> /\ returned = << >>
    /\ nav_failed = {} /\ inner_failed = {}
    /\ contexts = << >> /\ changed = 0
    /\ interrupt_swallowed = FALSE

ProfileIdle ==
    /\ ppc = "idle"
    /\ wanted = 0 /\ scroll_limit = 0
    /\ collected = {}
    /\ scroll_count = 0 /\ no_new_posts_count = 0 /\ previous_count = 0
    /\ post_urls_list = << >>
    /\ stop_reason = "running"
    /\ empty_scans = 0 /\ scans = 0

NoPageState == [ url |-> "", form |-> FALSE, captcha |-> FALSE ]
NotChecked == [ page |-> 0, result |-> FALSE ]
LoginIdle ==
    /\ lpc = "idle"
    /\ use_saved_cookies = FALSE
    /\ store = "none"
    /\ page_id = 0 /\ page_state = NoPageState
    /\ attempt = 0 /\ handed = 0
    /\ checked = NotChecked /\ ever_true = FALSE
    /\ store_ops = << >>
    /\ verifications = << >>

(***************************************************************************)
(* Initial state: _expand_all_comments(max_comments) is entered on a       *)
(* loaded post page.                                                       *)
(***************************************************************************)
Init ==
    /\ pc = "open"
    /\ max_scrolls \in 0..MaxBudget
    /\ max_comments \in {None} \cup { Some(n) : n \in 0..MaxTarget }
    /\ scroll_attempts = 0
    /\ more_comments_clicked = FALSE
    /\ clicked = FALSE
    /\ current_count = None
    /\ sel = 0 /\ btn = 0
    /\ feed \in {None} \cup { Some(k) : k \in 0..MaxReveal }
    /\ visible \in (IF feed = None THEN 0..1 ELSE {0})
    /\ markup \in 0..Len(COUNT_SELECTORS)
    /\ calls = << >>
    /\ exit = "running"
    /\ unattempted = 0
    /\ swallowed = FALSE
    /\ ever_clicked = FALSE
    /\ ExtractionIdle
    /\ PostInfoIdle
    /\ SessionIdle
    /\ LoginIdle
    /\ ProfileIdle /\ page_handle = FALSE /\ ClickingIdle

(***************************************************************************)
(* Exception handlers: where control resumes when an operation raises.     *)
(***************************************************************************)
\* An element operation (is_visible, scroll_into_view_if_needed,
\* text_content, click) raising inside the per-element try
\* (crawler.py:212-213, 247-248, 289-291): continue with the next element.
ButtonHandler_Missing == "next_selector"
ButtonHandler == "next_button"

\* query_selector_all raising inside the per-selector try
\* (crawler.py:214-215, 249-250, 292-294): continue with the next selector.
QueryHandler == "next_selector"

\* human_like_scroll raising inside the scroll loop: the only handler around
\* it is the function's own (crawler.py:185-186).
ScrollHandler == "except"

(***************************************************************************)
(* The selector/element loops shared by the three expansion functions.     *)
(* One step is one selector query or one element of its result. The page   *)
(* answers lazily: whether the result holds a further element, and what    *)
(* that element does, is chosen when the loop gets there.                  *)
(***************************************************************************)
NumSelectors(p) ==
    IF p = "more" THEN Len(VIEW_MORE_SELECTORS)
    ELSE IF p = "replies" THEN Len(REPLY_SELECTORS)
    ELSE Len(SEE_MORE_SELECTORS)

\* Entering an expansion function: its selector loop starts.
StartPhase(p) ==
    /\ pc' = p /\ sel' = 1 /\ btn' = 0
    /\ calls' = Append(calls, p)

\* for selector in selectors: the next selector, or the function returns to
\* `after`: "after_more" (back in the scroll iteration), "seemore" (line 183
\* calls _expand_see_more_in_comments) or "done" (_expand_all_comments returns).
NextSelector(after) ==
    IF sel < NumSelectors(pc)
    THEN /\ sel' = sel + 1 /\ btn' = 0
         /\ UNCHANGED << pc, calls >>
    ELSE IF after = "seemore"
    THEN StartPhase("seemore")
    ELSE /\ sel' = 0 /\ btn' = 0 /\ pc' = after
         /\ UNCHANGED calls

\* for button in buttons: this element is done, on to the next one.
NextButton ==
    /\ btn' = btn + 1
    /\ UNCHANGED << pc, sel, calls >>

\* An element operation raised: resume where the handler says. Without the
\* per-element handler the exception would reach the per-selector one and
\* the `rest` elements after this one would never be attempted.
ButtonRaised(after, rest) ==
    /\ swallowed' = TRUE
    /\ IF ButtonHandler = "next_button"
       THEN NextButton /\ unattempted' = unattempted
       ELSE NextSelector(after) /\ unattempted' = unattempted + rest

\* One step of `for selector in selectors: buttons = query_selector_all(..);
\* for button in buttons[:limit]: ...` (crawler.py:203-215, 237-250, 272-294).
SelectorStep(after, limit) ==
    \/ /\ btn = 0                                  \* the query raised
       /\ QueryHandler = "next_selector"
       /\ NextSelector(after)
       /\ UNCHANGED << clicked, visible, unattempted, swallowed >>
    \/ /\ NextSelector(after)                      \* no (further) element
       /\ UNCHANGED << clicked, visible, unattempted, swallowed >>
    \/ /\ btn < Min(MaxButtons, limit)             \* an element, skipped:
       /\ NextButton                               \* invisible or not "see more"
       /\ UNCHANGED << clicked, visible, unattempted, swallowed >>
    \/ /\ btn < Min(MaxButtons, limit)             \* an element, clicked
       /\ NextButton
       /\ clicked' = (clicked \/ pc = "more")
       /\ IF pc = "more"
          THEN \E c \in ClickReveals : visible' = visible + c
          ELSE UNCHANGED visible
       /\ UNCHANGED << unattempted, swallowed >>
    \/ /\ btn < Min(MaxButtons, limit)             \* an element, an operation
       /\ \E rest \in 0..(MaxButtons - btn - 1) :   \* of which raised
              ButtonRaised(after, rest)
       /\ UNCHANGED << clicked, visible >>

(***************************************************************************)
(* _expand_all_comments (crawler.py:144-186), one action per step.         *)
(***************************************************************************)
\* crawler.py:150-151: self._open_comment_section(), which catches every
\* exception of its own and returns a bool that is ignored here.
OpenCommentSection ==
    /\ pc = "open"
    /\ pc' = "loop"
    /\ calls' = Append(calls, "open")
    /\ UNCHANGED << sel, btn, loopVars, pageVars, config, exit,
                    unattempted, swallowed, ever_clicked >>
    /\ UNCHANGED outsideExpansion

\* crawler.py:157: while scroll_attempts < max_scrolls
LoopTest_OffByOne == scroll_attempts <= max_scrolls
LoopTest == scroll_attempts < max_scrolls

\* crawler.py:157, 179-180: the loop test; when it fails the loop ends on the
\* exhausted budget and _expand_all_replies starts.
ScrollLoop ==
    /\ pc = "loop"
    /\ IF LoopTest
       THEN /\ pc' = "scroll"
            /\ UNCHANGED << sel, btn, calls, exit >>
       ELSE /\ exit' = "budget"
            /\ StartPhase("replies")
    /\ UNCHANGED << loopVars, pageVars, config, unattempted, swallowed,
                    ever_clicked >>
    /\ UNCHANGED outsideExpansion

\* crawler.py:159-163: human_like_scroll(self.page, 600), then
\* _click_view_more_buttons starts with clicked = False. A scroll that raises
\* (page.evaluate, utils.py:59) leaves the loop through the function's handler.
\* more_comments_clicked and current_count still hold the previous iteration's
\* values in the code; nothing reads them before lines 163 and 169 assign them
\* again, so the model resets them here.
HumanLikeScroll ==
    /\ pc = "scroll"
    /\ calls' = Append(calls, "scroll")
    /\ \E raised \in MayRaise :
         IF raised
         THEN /\ pc' = ScrollHandler
              /\ exit' = "failure"
              /\ UNCHANGED << visible, clicked, sel, btn >>
         ELSE /\ \E r \in Reveals : visible' = visible + r
              /\ clicked' = FALSE
              /\ pc' = "more" /\ sel' = 1 /\ btn' = 0
              /\ UNCHANGED exit
    /\ more_comments_clicked' = FALSE
    /\ current_count' = None
    /\ UNCHANGED << scroll_attempts, markup, feed, config, unattempted,
                    swallowed, ever_clicked >>
    /\ UNCHANGED outsideExpansion

\* crawler.py:188-220: _click_view_more_buttons, one selector per step.
ClickViewMoreButtons ==
    /\ pc = "more"
    /\ SelectorStep("after_more", MaxButtons)
    /\ UNCHANGED << scroll_attempts, more_comments_clicked, current_count,
                    markup, feed, config, exit, ever_clicked >>
    /\ UNCHANGED outsideExpansion

\* crawler.py:168: if max_comments: (the target is checked only when truthy)
TargetSet == Truthy(max_comments)

\* crawler.py:170: current_count >= max_comments
TargetReached_Strict(count) == count > max_comments[1]
TargetReached(count) == count >= max_comments[1]

\* crawler.py:175: not more_comments_clicked and scroll_attempts > 5
NoMoreToLoad_Early(clk, attempts) == ~clk /\ attempts >= SCROLLED_ENOUGH
NoMoreToLoad(clk, attempts) == ~clk /\ attempts > SCROLLED_ENOUGH

\* crawler.py:174-180: the nothing-more test that ends an iteration.
NothingMoreTest ==
    IF NoMoreToLoad(clicked, scroll_attempts + 1)
    THEN exit' = "nomore" /\ StartPhase("replies")
    ELSE /\ pc' = "loop"
         /\ UNCHANGED << sel, btn, calls, exit >>

\* crawler.py:163-177: the rest of one iteration, after the clicks: count the
\* iteration, check the target when one is set, then the nothing-more test.
\* _count_visible_comments returns 0 when a query raises (crawler.py:317-318).
EndIteration ==
    /\ pc = "after_more"
    /\ more_comments_clicked' = clicked
    /\ scroll_attempts' = scroll_attempts + 1
    /\ ever_clicked' = (ever_clicked \/ clicked)
    /\ IF TargetSet
       THEN \E raised \in MayRaise :
              LET count == IF raised THEN 0 ELSE CountVisibleComments
              IN  /\ current_count' = Some(count)
                  /\ IF TargetReached(count)
                     THEN exit' = "target" /\ StartPhase("replies")
                     ELSE NothingMoreTest
       ELSE /\ UNCHANGED current_count
            /\ NothingMoreTest
    /\ clicked' = FALSE          \* the callee's local is gone
    /\ UNCHANGED << pageVars, config, unattempted, swallowed >>
    /\ UNCHANGED outsideExpansion

\* crawler.py:222-253: _expand_all_replies, at most the first 50 matches of
\* each selector; when it returns, line 183 calls _expand_see_more_in_comments.
ExpandAllReplies ==
    /\ pc = "replies"
    /\ SelectorStep("seemore", REPLY_LIMIT)
    /\ UNCHANGED << scroll_attempts, more_comments_clicked, current_count,
                    markup, feed, config, exit, ever_clicked >>
    /\ UNCHANGED outsideExpansion

\* crawler.py:255-299: _expand_see_more_in_comments; when it returns,
\* _expand_all_comments returns.
ExpandSeeMoreInComments ==
    /\ pc = "seemore"
    /\ SelectorStep("done", MaxButtons)
    /\ UNCHANGED << scroll_attempts, more_comments_clicked, current_count,
                    markup, feed, config, exit, ever_clicked >>
    /\ UNCHANGED outsideExpansion

\* crawler.py:185-186: except Exception: log a warning; the function returns.
ExceptHandler ==
    /\ pc = "except"
    /\ pc' = "done"
    /\ UNCHANGED << sel, btn, loopVars, pageVars, config, history >>
    /\ UNCHANGED outsideExpansion

Next ==
    \/ OpenCommentSection
    \/ ScrollLoop
    \/ HumanLikeScroll
    \/ ClickViewMoreButtons
    \/ EndIteration
    \/ ExpandAllReplies
    \/ ExpandSeeMoreInComments
    \/ ExceptHandler

Spec == Init /\ [][Next]_vars

(***************************************************************************)
(* Derived notions used by the properties of the convergence loop.         *)
(***************************************************************************)
\* The number of scroll iterations started so far (human_like_scroll calls).
ScrollsPerformed == Cardinality({ i \in DOMAIN calls : calls[i] = "scroll" })

\* The scroll loop is over: replies, see more, the handler or the return.
LoopEnded == exit # "running"
\* ... and it ended by one of its own three stop conditions.
LoopEndedNormally == exit \in { "target", "nomore", "budget" }

\* Steps one scroll iteration can take at most, and the position inside it.
IterationSteps == 3 + Len(VIEW_MORE_SELECTORS) * (MaxButtons + 1)
IterationOffset ==
    IF pc = "loop" THEN 0
    ELSE IF pc = "scroll" THEN 1
    ELSE IF pc = "more" THEN 2 + (sel - 1) * (MaxButtons + 1) + btn
    ELSE IterationSteps - 1
\* A measure of the work the scroll loop has left: iterations left, then
\* steps left in the iteration.
LoopMeasure ==
    IF LoopEnded \/ pc = "open" THEN 0
    ELSE (max_scrolls - scroll_attempts + 1) * IterationSteps - IterationOffset

\* A step taken inside the scroll loop leaves strictly less work.
LoopStepDecreasesMeasure ==
    (pc \in { "loop", "scroll", "more", "after_more" }) => (LoopMeasure' < LoopMeasure)

(***************************************************************************)
(* C1. The scroll loop of _expand_all_comments terminates after at most    *)
(* MAX_SCROLL_ATTEMPTS scroll iterations, for every page behaviour and     *)
(* every target: the counter never exceeds the budget, no more than        *)
(* MAX_SCROLL_ATTEMPTS scrolls are ever started, and every step taken      *)
(* inside the loop strictly decreases a non-negative measure of the work   *)
(* left, so the loop cannot run forever.                                   *)
(***************************************************************************)
C1_ScrollLoopBounded ==
    /\ [](/\ scroll_attempts <= max_scrolls
          /\ ScrollsPerformed <= max_scrolls
          /\ LoopMeasure >= 0)
    /\ [][LoopStepDecreasesMeasure]_vars

\* A run in which the budget, not another condition, ended the loop.
C1_Witness ==
    /\ pc = "done" /\ exit = "budget"
    /\ max_scrolls >= 2 /\ scroll_attempts = max_scrolls
    /\ ScrollsPerformed = max_scrolls

(***************************************************************************)
(* C2. With a target T (a value `if max_comments:` accepts) the count is   *)
(* taken once after each scroll and the loop stops at the first iteration  *)
(* whose count is >= T: the loop goes on only while the last count was     *)
(* below T, it ends on the target only with a count >= T and only after a  *)
(* scroll, even when the page shows T comments from the start. On the      *)
(* synthetic feed that starts empty and reveals exactly 2 comments per     *)
(* scroll, with T = 5 and a budget >= 3, no 4th scroll is ever started and *)
(* the loop ends on the target at the 3rd iteration.                       *)
(***************************************************************************)
C2_StopsAtFirstCountReachingTarget ==
    /\ (TargetSet /\ ~LoopEnded /\ current_count # None)
          => current_count[1] < max_comments[1]
    /\ (TargetSet /\ ~LoopEnded /\ scroll_attempts >= 1 /\ pc \in { "loop", "scroll" })
          => current_count # None
    /\ exit = "target"
          => /\ TargetSet /\ current_count # None
             /\ current_count[1] >= max_comments[1]
             /\ ScrollsPerformed >= 1 /\ ScrollsPerformed = scroll_attempts
    /\ (feed = Some(2) /\ markup # 0 /\ max_comments = Some(5) /\ max_scrolls >= 3)
          => /\ ScrollsPerformed <= 3 /\ scroll_attempts <= 3
             /\ LoopEnded => (exit = "target" /\ scroll_attempts = 3)

\* The scenario of the claim, run to the end.
C2_Witness ==
    /\ pc = "done" /\ exit = "target"
    /\ feed = Some(2) /\ max_comments = Some(5) /\ max_scrolls > 3
    /\ scroll_attempts = 3 /\ current_count = Some(6)

(***************************************************************************)
(* C3. The loop ends on "no more comments to load" only in an iteration    *)
(* that clicked no load-more control and after more than 5 iterations.     *)
(* With no target, when the loop ends by one of its own conditions: if no  *)
(* iteration ever clicked a control it has performed exactly               *)
(* min(6, MAX_SCROLL_ATTEMPTS) scrolls, and if its last iteration clicked  *)
(* one (as when every iteration does) it ran until the budget was          *)
(* exhausted.                                                              *)
(***************************************************************************)
C3_NoMoreOnlyAfterFiveWithoutClick ==
    /\ exit = "nomore"
          => ~more_comments_clicked /\ scroll_attempts > SCROLLED_ENOUGH
    /\ (~TargetSet /\ LoopEndedNormally /\ ~ever_clicked)
          => /\ scroll_attempts = Min(SCROLLED_ENOUGH + 1, max_scrolls)
             /\ ScrollsPerformed = Min(SCROLLED_ENOUGH + 1, max_scrolls)
    /\ (~TargetSet /\ LoopEndedNormally /\ more_comments_clicked)
          => exit = "budget" /\ scroll_attempts = max_scrolls

\* No target, never a click, a budget above 6: the loop stops at 6.
C3_Witness ==
    /\ pc = "done" /\ exit = "nomore" /\ ~TargetSet /\ ~ever_clicked
    /\ max_scrolls > SCROLLED_ENOUGH + 1
    /\ scroll_attempts = SCROLLED_ENOUGH + 1

(***************************************************************************)
(* C4. However the scroll loop ends, a failure inside a scroll iteration   *)
(* included, reply expansion is attempted after the last scroll iteration  *)
(* and see-more expansion after it: every finished run made the calls      *)
(* open, scroll ..., replies, seemore in that order.                       *)
(***************************************************************************)
C4_ExpansionsAlwaysAttempted ==
    pc = "done"
       => /\ Len(calls) >= 3
          /\ calls[1] = "open"
          /\ \A i \in 2..(Len(calls) - 2) : calls[i] = "scroll"
          /\ calls[Len(calls) - 1] = "replies"
          /\ calls[Len(calls)] = "seemore"

(***************************************************************************)
(* C5. An exception raised by an element operation during load-more,       *)
(* reply or see-more expansion is swallowed and only that element is       *)
(* skipped: no matched element is ever left unattempted, the function's    *)
(* own handler is entered by nothing but a failed scroll, and a run in     *)
(* which only element operations raised makes all its calls and returns.   *)
(***************************************************************************)
C5_ElementExceptionsSwallowed ==
    /\ unattempted = 0
    /\ pc = "except" => (exit = "failure" /\ calls[Len(calls)] = "scroll")
    /\ (pc = "done" /\ exit # "failure")
          => /\ calls[Len(calls) - 1] = "replies"
             /\ calls[Len(calls)] = "seemore"
             /\ ScrollsPerformed = scroll_attempts

\* A run that swallowed an element exception and returned normally.
C5_Witness ==
    /\ pc = "done" /\ swallowed /\ exit # "failure" /\ unattempted = 0

(***************************************************************************)
(* Part 2. Python strings. A text is a TLA+ string; Char(s, i) is its i-th *)
(* character (1-based) as a string of length 1.                            *)
(***************************************************************************)
Char(s, i) == SubSeq(s, i, i)

\* s[i-1:].startswith(p)
StartsWithAt(s, i, p) ==
    /\ i + Len(p) - 1 <= Len(s)
    /\ SubSeq(s, i, i + Len(p) - 1) = p

\* The whitespace str.strip() and str.split() remove (the ASCII part used here).
WHITESPACE == { " ", "\t", "\n" }
IsSpace(c) == c \in WHITESPACE

\* The first index >= i that holds a non-space (Len(s) + 1 when none does).
RECURSIVE SkipSpaces(_, _)
SkipSpaces(s, i) ==
    IF i > Len(s) \/ ~IsSpace(Char(s, i)) THEN i ELSE SkipSpaces(s, i + 1)

\* The first index >= i that holds a space (Len(s) + 1 when none does).
RECURSIVE WordEnd(_, _)
WordEnd(s, i) ==
    IF i > Len(s) \/ IsSpace(Char(s, i)) THEN i ELSE WordEnd(s, i + 1)

\* The last index <= i that holds a non-space (0 when none does).
RECURSIVE LastNonSpace(_, _)
LastNonSpace(s, i) ==
    IF i = 0 \/ ~IsSpace(Char(s, i)) THEN i ELSE LastNonSpace(s, i - 1)

\* str.strip()
Strip(s) == SubSeq(s, SkipSpaces(s, 1), LastNonSpace(s, Len(s)))

\* str.split(): the whitespace-delimited words of s, in order.
RECURSIVE SplitFrom(_, _)
SplitFrom(s, i) ==
    LET j == SkipSpaces(s, i)
    IN  IF j > Len(s) THEN << >>
        ELSE << SubSeq(s, j, WordEnd(s, j) - 1) >> \o SplitFrom(s, WordEnd(s, j))
Split(s) == SplitFrom(s, 1)

\* ' '.join(words)
RECURSIVE Join(_)
Join(words) ==
    IF words = << >> THEN ""
    ELSE IF Len(words) = 1 THEN words[1]
    ELSE words[1] \o " " \o Join(Tail(words))

\* sub in s
Contains(s, sub) == \E i \in 1..(Len(s) + 1) : StartsWithAt(s, i, sub)

\* s.replace(old, ''): every non-overlapping occurrence of old, left to
\* right, is removed; replacing the empty string by itself changes nothing.
RECURSIVE RemoveFrom(_, _, _)
RemoveFrom(s, i, old) ==
    IF i > Len(s) THEN ""
    ELSE IF StartsWithAt(s, i, old) THEN RemoveFrom(s, i + Len(old), old)
    ELSE Char(s, i) \o RemoveFrom(s, i + 1, old)
Remove(s, old) == IF old = "" THEN s ELSE RemoveFrom(s, 1, old)

\* for noise in noises: s = s.replace(noise, '')
RECURSIVE RemoveAll(_, _)
RemoveAll(s, noises) ==
    IF noises = << >> THEN s
    ELSE RemoveAll(Remove(s, Head(noises)), Tail(noises))

(***************************************************************************)
(* The URL patterns of crawler.py:444-445:                                 *)
(*   http[s]?://(?:[a-zA-Z]|[0-9]|[$-_@.&+]|[!*\\(\\),]|(?:%[0-9a-fA-F]{2}))+ *)
(*   www\.(?: the same class )+                                            *)
(***************************************************************************)
LETTERS ==
    { "a", "b", "c", "d", "e", "f", "g", "h", "i", "j", "k", "l", "m",
      "n", "o", "p", "q", "r", "s", "t", "u", "v", "w", "x", "y", "z",
      "A", "B", "C", "D", "E", "F", "G", "H", "I", "J", "K", "L", "M",
      "N", "O", "P", "Q", "R", "S", "T", "U", "V", "W", "X", "Y", "Z" }
DIGITS == { "0", "1", "2", "3", "4", "5", "6", "7", "8", "9" }
\* [$-_ : the range from "$" (0x24) to "_" (0x5F)
DOLLAR_TO_UNDERSCORE ==
    { "$", "%", "&", "'", "(", ")", "*", "+", ",", "-", ".", "/",
      "0", "1", "2", "3", "4", "5", "6", "7", "8", "9",
      ":", ";", "<", "=", ">", "?", "@",
      "A", "B", "C", "D", "E", "F", "G", "H", "I", "J", "K", "L", "M",
      "N", "O", "P", "Q", "R", "S", "T", "U", "V", "W", "X", "Y", "Z",
      "[", "\\", "]", "^", "_" }
\* One repetition of the group consumes one character of this class; the
\* %XX alternative adds nothing, "%" and the hex digits being in the class.
URL_CHARS ==
    LETTERS \cup DIGITS \cup DOLLAR_TO_UNDERSCORE \cup { "@", ".", "&", "+" }
        \cup { "!", "*", "\\", "(", ")", "," }
IsUrlChar(c) == c \in URL_CHARS

\* The end of the greedy repetition started at i: the first index >= i that
\* holds no URL character.
RECURSIVE UrlRunEnd(_, _)
UrlRunEnd(s, i) ==
    IF i > Len(s) \/ ~IsUrlChar(Char(s, i)) THEN i ELSE UrlRunEnd(s, i + 1)

\* The length of the literal head of each pattern matched at i (0: no match).
HttpPrefix(s, i) ==
    IF ~StartsWithAt(s, i, "http") THEN 0
    ELSE IF StartsWithAt(s, i + 4, "s://") THEN 8
    ELSE IF StartsWithAt(s, i + 4, "://") THEN 7
    ELSE 0
WwwPrefix(s, i) == IF StartsWithAt(s, i, "www.") THEN 4 ELSE 0
PatternPrefix(pattern, s, i) ==
    IF pattern = "http" THEN HttpPrefix(s, i) ELSE WwwPrefix(s, i)

\* The index after the match of the pattern at i, 0 when it does not match
\* there: the head and then at least one URL character.
MatchEnd(pattern, s, i) ==
    LET n == PatternPrefix(pattern, s, i)
        e == UrlRunEnd(s, i + n)
    IN  IF n # 0 /\ e > i + n THEN e ELSE 0

\* re.sub(pattern, '', s): leftmost non-overlapping matches are removed.
RECURSIVE SubFrom(_, _, _)
SubFrom(pattern, s, i) ==
    IF i > Len(s) THEN ""
    ELSE IF MatchEnd(pattern, s, i) # 0
         THEN SubFrom(pattern, s, MatchEnd(pattern, s, i))
    ELSE Char(s, i) \o SubFrom(pattern, s, i + 1)
ReSub(pattern, s) == SubFrom(pattern, s, 1)

\* crawler.py:444-445: the http(s) pattern first, then the www. pattern.
RemoveUrls_HttpOnly(text) == ReSub("http", text)
RemoveUrls(text) == ReSub("www", ReSub("http", text))

\* crawler.py:442-447: applied only to a non-empty text.
CleanText(text) ==
    IF text = "" THEN "" ELSE Strip(Join(Split(RemoveUrls(text))))

(***************************************************************************)
(* The DOM snapshot. The page is the sequence of its comment-like          *)
(* containers (div elements) in document order; a container has an         *)
(* aria-label, a role and its descendants in document order ("parts"):     *)
(* text nodes, div and span elements with a dir attribute, and links with  *)
(* their role, href, aria-label and the element that wraps them.           *)
(***************************************************************************)
TextNode(t) ==
    [ tag |-> "#text", dir |-> "", text |-> t, role |-> "", href |-> "",
      aria |-> "", wrap |-> "" ]
Div(d, t) ==
    [ tag |-> "div", dir |-> d, text |-> t, role |-> "", href |-> "",
      aria |-> "", wrap |-> "" ]
Span(d, t) ==
    [ tag |-> "span", dir |-> d, text |-> t, role |-> "", href |-> "",
      aria |-> "", wrap |-> "" ]
\* wrap: "" (none), "span_auto" (inside a span[dir=auto]), "h4", "strong"
Link(t, r, h, a, w) ==
    [ tag |-> "a", dir |-> "", text |-> t, role |-> r, href |-> h,
      aria |-> a, wrap |-> w ]
Container(a, r, ps) == [ aria |-> a, role |-> r, parts |-> ps ]

\* An inner div[dir=auto] seen as an element of its own: its text is its
\* only descendant.
AsElement(p) == Container("", "", << TextNode(p.text) >>)

\* crawler.py:331-339
COMMENT_SELECTORS ==
    << "div[aria-label*=Comment by]", "div[aria-label*=Komentar oleh]",
       "div[role=article] div[dir=auto]", "[role=article]" >>

HasCommentByLabel(c) == Contains(c.aria, "Comment by")
HasKomentarOlehLabel(c) == Contains(c.aria, "Komentar oleh")
IsArticle(c) == c.role = "article"
IsAutoDiv(p) == p.tag = "div" /\ p.dir = "auto"

\* The div[dir=auto] descendants of a container, as elements.
AutoDivsOf(c) ==
    LET ds == SelectSeq(c.parts, IsAutoDiv)
    IN  [ i \in 1..Len(ds) |-> AsElement(ds[i]) ]

\* The div[dir=auto] descendants of the article containers, in document order.
RECURSIVE ArticleAutoDivs(_)
ArticleAutoDivs(page) ==
    IF page = << >> THEN << >>
    ELSE (IF IsArticle(Head(page)) THEN AutoDivsOf(Head(page)) ELSE << >>)
            \o ArticleAutoDivs(Tail(page))

\* page.query_selector_all(COMMENT_SELECTORS[k])
QuerySelectorAll(page, k) ==
    IF k = 1 THEN SelectSeq(page, HasCommentByLabel)
    ELSE IF k = 2 THEN SelectSeq(page, HasKomentarOlehLabel)
    ELSE IF k = 3 THEN ArticleAutoDivs(page)
    ELSE SelectSeq(page, IsArticle)

\* crawler.py:341-347: for selector in comment_selectors: the first
\* non-empty result is kept and the loop breaks.
RECURSIVE DiscoverFrom(_, _)
DiscoverFrom(page, k) ==
    IF k > Len(COMMENT_SELECTORS) THEN << >>
    ELSE IF QuerySelectorAll(page, k) # << >> THEN QuerySelectorAll(page, k)
    ELSE DiscoverFrom(page, k + 1)
\* The same loop without the break: the last non-empty result is kept.
RECURSIVE DiscoverNoBreakFrom(_, _)
DiscoverNoBreakFrom(page, k) ==
    IF k > Len(COMMENT_SELECTORS) THEN << >>
    ELSE IF DiscoverNoBreakFrom(page, k + 1) # << >>
         THEN DiscoverNoBreakFrom(page, k + 1)
    ELSE QuerySelectorAll(page, k)
Discover_NoBreak(page) == DiscoverNoBreakFrom(page, 1)
Discover(page) == DiscoverFrom(page, 1)

(***************************************************************************)
(* _extract_single_comment (crawler.py:370-530): author.                   *)
(***************************************************************************)
\* crawler.py:382-390
AUTHOR_SELECTORS ==
    << "a[role=link]", "a[href*=/user/]", "a[href*=/profile]", "a[aria-label]",
       "span[dir=auto] a", "h4 a", "strong a" >>

IsLink(p) == p.tag = "a"
MatchesAuthorSelector(p, k) ==
    /\ IsLink(p)
    /\ IF k = 1 THEN p.role = "link"
       ELSE IF k = 2 THEN Contains(p.href, "/user/")
       ELSE IF k = 3 THEN Contains(p.href, "/profile")
       ELSE IF k = 4 THEN p.aria # ""
       ELSE IF k = 5 THEN p.wrap = "span_auto"
       ELSE IF k = 6 THEN p.wrap = "h4"
       ELSE p.wrap = "strong"

\* A query that ignores its selector and answers the first link in document
\* order.
RECURSIVE FirstMatch_DomOrder(_, _)
FirstMatch_DomOrder(parts, k) ==
    IF parts = << >> THEN << >>
    ELSE IF IsLink(Head(parts)) THEN << Head(parts) >>
    ELSE FirstMatch_DomOrder(Tail(parts), k)

\* element.query_selector(AUTHOR_SELECTORS[k]): the first match in document
\* order, << >> when there is none.
RECURSIVE FirstMatch(_, _)
FirstMatch(parts, k) ==
    IF parts = << >> THEN << >>
    ELSE IF MatchesAuthorSelector(Head(parts), k) THEN << Head(parts) >>
    ELSE FirstMatch(Tail(parts), k)

\* crawler.py:392-402: the first selector whose first match has a non-empty
\* stripped text gives << author_name, author_url >>.
RECURSIVE AuthorFromSelectors(_, _)
AuthorFromSelectors(el, k) ==
    IF k > Len(AUTHOR_SELECTORS) THEN << "", "" >>
    ELSE LET m == FirstMatch(el.parts, k)
         IN  IF m # << >> /\ Strip(m[1].text) # ""
             THEN << Strip(m[1].text), m[1].href >>
             ELSE AuthorFromSelectors(el, k + 1)

\* crawler.py:411
FALLBACK_LABELS == { "Like", "Reply", "Suka", "Balas" }

\* crawler.py:405-416: the first link whose text is longer than 2 and is not
\* one of the four labels.
RECURSIVE AuthorFromLinks(_)
AuthorFromLinks(links) ==
    IF links = << >> THEN << "", "" >>
    ELSE LET text == Strip(Head(links).text)
         IN  IF Len(text) > 2 /\ text \notin FALLBACK_LABELS
             THEN << text, Head(links).href >>
             ELSE AuthorFromLinks(Tail(links))

ExtractAuthor(el) ==
    IF AuthorFromSelectors(el, 1)[1] # "" THEN AuthorFromSelectors(el, 1)
    ELSE AuthorFromLinks(SelectSeq(el.parts, IsLink))

(***************************************************************************)
(* _extract_single_comment: body.                                          *)
(***************************************************************************)
\* crawler.py:428: the button texts strategy 1 skips (besides author_name)
BUTTON_LABELS == { "Like", "Reply", "Suka", "Balas", "Komentar", "Comment" }
\* crawler.py:436: what strategy 2 removes from the full text
Noises(author) ==
    << author, "Like", "Reply", "Suka", "Balas", "·", "Just now", "yang lalu" >>

\* element.query_selector_all('div[dir="auto"], span[dir="auto"]'): the
\* auto-direction divs and spans; the span wrapping a link has the link's text.
IsTextElement(p) ==
    \/ p.tag \in { "div", "span" } /\ p.dir = "auto"
    \/ IsLink(p) /\ p.wrap = "span_auto"

\* crawler.py:423-430: the longest text above 5 characters that is neither
\* the author name nor a button label; the first of equal lengths is kept.
RECURSIVE LongestText(_, _, _)
LongestText(parts, author, best) ==
    IF parts = << >> THEN best
    ELSE LET text == Strip(Head(parts).text)
             take == /\ IsTextElement(Head(parts))
                     /\ Len(text) > 5
                     /\ text \notin ({ author } \cup BUTTON_LABELS)
                     /\ Len(text) > Len(best)
         IN  LongestText(Tail(parts), author, IF take THEN text ELSE best)

\* element.text_content()
RECURSIVE TextContent(_)
TextContent(parts) ==
    IF parts = << >> THEN "" ELSE Head(parts).text \o TextContent(Tail(parts))

\* crawler.py:433-438
FullTextWithoutNoise(el, author) ==
    Strip(RemoveAll(Strip(TextContent(el.parts)), Noises(author)))

ExtractBody_FullTextOnly(el, author) == FullTextWithoutNoise(el, author)
\* crawler.py:419-438: strategy 1, then strategy 2 when it found nothing.
ExtractBody(el, author) ==
    IF LongestText(el.parts, author, "") # ""
    THEN LongestText(el.parts, author, "")
    ELSE FullTextWithoutNoise(el, author)

(***************************************************************************)
(* _extract_single_comment: timestamp (crawler.py:463-481).                *)
(***************************************************************************)
MAX_TIMESTAMP_LENGTH == 50  \* crawler.py:470  len(text) > 50

UPPERCASE == "ABCDEFGHIJKLMNOPQRSTUVWXYZ"
LOWERCASE == "abcdefghijklmnopqrstuvwxyz"
\* re.IGNORECASE: the text with its ASCII capitals in lower case.
RECURSIVE LowerCharFrom(_, _)
LowerCharFrom(c, k) ==
    IF k > Len(UPPERCASE) THEN c
    ELSE IF Char(UPPERCASE, k) = c THEN Char(LOWERCASE, k)
    ELSE LowerCharFrom(c, k + 1)
RECURSIVE LowerFrom(_, _)
LowerFrom(s, i) ==
    IF i > Len(s) THEN ""
    ELSE LowerCharFrom(Char(s, i), 1) \o LowerFrom(s, i + 1)
Lower(s) == LowerFrom(s, 1)

\* The first index >= i that holds no digit.
RECURSIVE DigitRunEnd(_, _)
DigitRunEnd(s, i) ==
    IF i > Len(s) \/ Char(s, i) \notin DIGITS THEN i ELSE DigitRunEnd(s, i + 1)

\* crawler.py:478: \d+\s*(m|h|d|j|w|hari|jam|menit|minggu|bulan|tahun|detik|s)
TIME_UNITS ==
    { "m", "h", "d", "j", "w", "hari", "jam", "menit", "minggu", "bulan",
      "tahun", "detik", "s" }
\* crawler.py:479: just now|ago|yang lalu|baru saja
TIME_WORDS == { "just now", "ago", "yang lalu", "baru saja" }

\* re.search of the first pattern: digits, optional whitespace, a unit.
HasDigitsAndUnit(s) ==
    \E i \in 1..Len(s) :
        /\ Char(s, i) \in DIGITS
        /\ \E u \in TIME_UNITS :
              StartsWithAt(Lower(s), SkipSpaces(s, DigitRunEnd(s, i)), u)
\* crawler.py:478-479: either pattern is found in the text.
LooksLikeTime(s) ==
    \/ HasDigitsAndUnit(s)
    \/ \E w \in TIME_WORDS : Contains(Lower(s), w)

\* element.query_selector_all('a, span'): the stripped texts of the links
\* and spans in document order; the span[dir=auto] that wraps a link comes
\* before the link and has its text.
RECURSIVE TimeElementTexts(_)
TimeElementTexts(parts) ==
    IF parts = << >> THEN << >>
    ELSE LET p == Head(parts)
             t == Strip(p.text)
         IN  (IF p.tag = "span" THEN << t >>
              ELSE IF IsLink(p) /\ p.wrap = "span_auto" THEN << t, t >>
              ELSE IF IsLink(p) THEN << t >>
              ELSE << >>) \o TimeElementTexts(Tail(parts))

\* crawler.py:470-471: a candidate that long is skipped.
TooLongForTimestamp_Never(text) == FALSE
TooLongForTimestamp(text) == Len(text) > MAX_TIMESTAMP_LENGTH

RECURSIVE FirstTimestamp_FieldsAllowed(_, _, _)
FirstTimestamp_FieldsAllowed(texts, author, body) ==
    IF texts = << >> THEN ""
    ELSE IF TooLongForTimestamp(Head(texts))
         THEN FirstTimestamp_FieldsAllowed(Tail(texts), author, body)
    ELSE IF LooksLikeTime(Head(texts)) THEN Head(texts)
    ELSE FirstTimestamp_FieldsAllowed(Tail(texts), author, body)
\* crawler.py:466-481: the first candidate that is not too long, is neither
\* the author name nor the comment text and looks like a time; "" when
\* there is none.
RECURSIVE FirstTimestamp(_, _, _)
FirstTimestamp(texts, author, body) ==
    IF texts = << >> THEN ""
    ELSE IF TooLongForTimestamp(Head(texts)) THEN FirstTimestamp(Tail(texts), author, body)
    ELSE IF Head(texts) = author \/ Head(texts) = body
         THEN FirstTimestamp(Tail(texts), author, body)
    ELSE IF LooksLikeTime(Head(texts)) THEN Head(texts)
    ELSE FirstTimestamp(Tail(texts), author, body)
ExtractTimestamp(el, author, body) ==
    FirstTimestamp(TimeElementTexts(el.parts), author, body)

(***************************************************************************)
(* _extract_single_comment: the drop conditions and the record.            *)
(***************************************************************************)
MIN_COMMENT_LENGTH == 2     \* crawler.py:459  len(comment_text) < 2

\* crawler.py:450-452 and 459-461: the node yields None.
Dropped_WithoutAuthor(author, text) ==
    author = "" \/ Len(text) < MIN_COMMENT_LENGTH
Dropped(author, text) ==
    \/ author = "" /\ text = ""
    \/ Len(text) < MIN_COMMENT_LENGTH

CommentRecord_Dense(i, author, url, text, timestamp) ==
    [ comment_id |-> "comment_" \o ToString(Len(comments)),
      comment_author_name |-> IF author = "" THEN "Unknown User" ELSE author,
      comment_author_url |-> url,
      comment_text |-> text,
      comment_timestamp |-> timestamp ]
\* crawler.py:455-456 and 513-523, with the comment_id of line 359.
CommentRecord(i, author, url, text, timestamp) ==
    [ comment_id |-> "comment_" \o ToString(i),
      comment_author_name |-> IF author = "" THEN "Unknown User" ELSE author,
      comment_author_url |-> url,
      comment_text |-> text,
      comment_timestamp |-> timestamp ]

(***************************************************************************)
(* The pages _extract_comments is run on.                                  *)
(*  - palette pages: up to MaxNodes containers, each one of seven: a        *)
(*    comment with an author link, a body without any link or a lone       *)
(*    button label, under the labels and roles the selectors look for;     *)
(*  - probe pages: one labelled container holding a generated body (as an  *)
(*    auto-direction div or as a plain text node, with or without an       *)
(*    author link) or a lone button label in each kind of node.            *)
(***************************************************************************)
ATOMS == { "http://", "https://", "www.", "ok", " ", "#" }
RECURSIVE BodiesUpTo(_)
BodiesUpTo(n) ==
    IF n = 0 THEN { "" }
    ELSE BodiesUpTo(n - 1) \cup { b \o a : b \in BodiesUpTo(n - 1), a \in ATOMS }
SCENARIO_BODIES ==
    { "Check this out http://example.com/x?y=1 thanks",
      "Nice post!!",
      "see http://a.com/#top now" }
Bodies == BodiesUpTo(MaxAtoms) \cup SCENARIO_BODIES

AUTHOR_LINK == Link("Ann", "link", "/user/1", "", "")

BodyNodes ==
    UNION { { << Div("auto", b) >>, << TextNode(b) >>,
              << AUTHOR_LINK, Div("auto", b) >>,
              << AUTHOR_LINK, TextNode(b) >> } : b \in Bodies }
LabelNodes ==
    UNION { { << TextNode(l) >>, << Div("auto", l) >>, << Span("auto", l) >>,
              << Link(l, "link", "", "", "") >>, << Link(l, "", "", "", "") >>,
              << Link(l, "", "", "", "span_auto") >> } : l \in BUTTON_LABELS }
\* Timestamp candidates: spans and links whose text is a relative time, a
\* relative time of exactly 50 and of 51 characters, the author's name, the
\* comment's text, and a text that is no time.
RECURSIVE Repeat(_, _)
Repeat(s, n) == IF n = 0 THEN "" ELSE s \o Repeat(s, n - 1)
TIME_CANDIDATES ==
    { Span("", "5m"), Link("2 jam", "", "/p/1", "", ""), Span("", "Just Now"),
      Span("", "5h " \o Repeat("x", MAX_TIMESTAMP_LENGTH - 3)),
      Span("", "5h " \o Repeat("x", MAX_TIMESTAMP_LENGTH - 2)),
      Span("", "Ann"), Span("", "Top fan") }
RECURSIVE CandidatesUpTo(_)
CandidatesUpTo(n) ==
    IF n = 0 THEN { << >> }
    ELSE CandidatesUpTo(n - 1)
            \cup { Append(cs, c) : cs \in CandidatesUpTo(n - 1), c \in TIME_CANDIDATES }
TimestampNodes ==
    { << AUTHOR_LINK, Div("auto", "Great photo") >> \o cs :
          cs \in CandidatesUpTo(MaxStamps) }

\* Comments with two links, in both document orders: one carrying an
\* aria-label (with a text, with a text and role=link, or without any text)
\* and one nested in a span[dir=auto], an h4 or a strong.
ARIA_LINKS ==
    { Link("Ann", "", "/ann", "Ann", ""), Link("Ann", "link", "/ann", "Ann", ""),
      Link("", "", "/ann", "Ann", "") }
NESTED_LINKS ==
    { Link("Bob", "", "/bob", "", w) : w \in { "span_auto", "h4", "strong" } }
        \cup { Link("Bob", "link", "/bob", "", "h4"),
               Link("Bob", "", "/user/7", "", "strong") }
AuthorNodes ==
    UNION { { << a, n, Div("auto", "Great photo") >>,
              << n, a, Div("auto", "Great photo") >> } :
            a \in ARIA_LINKS, n \in NESTED_LINKS }

\* Comments with one or two text-bearing nodes after the author link: two
\* bodies of equal length, a longer one, a short one, the author's name and
\* a button label in auto-direction nodes, a long text in a plain div.
AUTHOR_LONG == Link("Annabel Lee", "link", "/user/2", "", "")
BODY_PARTS ==
    { Div("auto", "Great photo"), Span("auto", "Lovely shot"),
      Div("auto", "A longer body text"), Div("auto", "Nice"),
      Span("auto", "Annabel Lee"), Div("auto", "Komentar"),
      Div("", "A much longer plain text") }
BodyChoiceNodes ==
    { << AUTHOR_LONG, a >> : a \in BODY_PARTS }
        \cup { << AUTHOR_LONG, a, b >> : a \in BODY_PARTS, b \in BODY_PARTS }
\* Comments whose author name or body looks like a relative time and is
\* itself the text of a link or span, with or without a real time after it.
TimeLikeFieldNodes ==
    { << Link("Agostino", "link", "/user/3", "", ""), Div("auto", "Great photo") >>,
      << Link("Agostino", "link", "/user/3", "", ""), Div("auto", "Great photo"),
         Span("", "5m") >>,
      << AUTHOR_LINK, Span("auto", "see you 2 days ago") >>,
      << AUTHOR_LINK, Span("auto", "see you 2 days ago"),
         Link("2 jam", "", "/p/1", "", "") >> }

ProbePages ==
    { << Container("Comment by Ann", "article", ps) >> :
          ps \in BodyNodes \cup LabelNodes \cup TimestampNodes \cup AuthorNodes
                 \cup BodyChoiceNodes \cup TimeLikeFieldNodes }

GOOD_COMMENT == << AUTHOR_LINK, Div("auto", "Great photo") >>
NO_AUTHOR_COMMENT == << Div("auto", "Nice post!!") >>
LONE_LABEL == << TextNode("Like") >>
Palette ==
    { Container("Comment by Ann", "article", GOOD_COMMENT),
      Container("Comment by Ann", "article", NO_AUTHOR_COMMENT),
      Container("Comment by Ann", "article", LONE_LABEL),
      Container("Komentar oleh Budi", "", GOOD_COMMENT),
      Container("", "article", GOOD_COMMENT),
      Container("", "article", LONE_LABEL),
      Container("", "", GOOD_COMMENT) }
RECURSIVE PagesUpTo(_)
PagesUpTo(n) ==
    IF n = 0 THEN { << >> }
    ELSE PagesUpTo(n - 1)
            \cup { Append(pg, c) : pg \in PagesUpTo(n - 1), c \in Palette }
Pages == PagesUpTo(MaxNodes) \cup ProbePages

(***************************************************************************)
(* _extract_comments (crawler.py:320-368), one action per step.            *)
(***************************************************************************)
\* _expand_all_comments has returned (crawl_post_comments, crawler.py:41-44).
ExpansionDone ==
    /\ pc = "done"
    /\ max_scrolls = 0 /\ max_comments = None
    /\ scroll_attempts = 0 /\ more_comments_clicked = FALSE
    /\ clicked = FALSE /\ current_count = None
    /\ sel = 0 /\ btn = 0
    /\ visible = 0 /\ markup = 0 /\ feed = None
    /\ calls = << "open", "replies", "seemore" >>
    /\ exit = "budget"
    /\ unattempted = 0 /\ swallowed = FALSE /\ ever_clicked = FALSE

ExtractInit ==
    /\ ExpansionDone
    /\ epc = "discover"
    /\ dom \in Pages
    /\ comment_elements = << >>
    /\ idx = 0
    /\ author_name = "" /\ author_url = "" /\ comment_text = ""
    /\ comments = << >>
    /\ query_raised = FALSE
    /\ raised_at = {}
    /\ PostInfoIdle
    /\ SessionIdle
    /\ LoginIdle
    /\ ProfileIdle /\ page_handle = FALSE /\ ClickingIdle

\* crawler.py:341-347: discovery. A query that raises is caught at line 365
\* and the function returns the (empty) list.
DiscoverCommentElements ==
    /\ epc = "discover"
    /\ \E raised \in BOOLEAN :
         IF raised
         THEN /\ query_raised' = TRUE
              /\ epc' = "returned"
              /\ UNCHANGED comment_elements
         ELSE /\ comment_elements' = Discover(dom)
              /\ epc' = "element"
              /\ UNCHANGED query_raised
    /\ UNCHANGED << dom, idx, author_name, author_url, comment_text, comments,
                    raised_at >>
    /\ UNCHANGED outsideExtraction

\* crawler.py:355-357 and 378-438: the next element enters
\* _extract_single_comment; author, then raw body. A DOM operation of the
\* function that raises ends it with None (lines 528-530) and the loop goes
\* on with the next element.
ExtractAuthorAndBody ==
    /\ epc = "element"
    /\ idx < Len(comment_elements)
    /\ \E raised \in BOOLEAN :
         IF raised
         THEN /\ raised_at' = raised_at \cup { idx }
              /\ idx' = idx + 1
              /\ author_name' = "" /\ author_url' = "" /\ comment_text' = ""
              /\ UNCHANGED epc
         ELSE LET el == comment_elements[idx + 1]
                  author == ExtractAuthor(el)
              IN  /\ author_name' = author[1]
                  /\ author_url' = author[2]
                  /\ comment_text' = ExtractBody(el, author[1])
                  /\ epc' = "clean"
                  /\ UNCHANGED << idx, raised_at >>
    /\ UNCHANGED << dom, comment_elements, comments, query_raised >>
    /\ UNCHANGED outsideExtraction

\* crawler.py:440-447: URL removal and whitespace collapse.
CleanCommentText ==
    /\ epc = "clean"
    /\ comment_text' = CleanText(comment_text)
    /\ epc' = "record"
    /\ UNCHANGED << dom, comment_elements, idx, author_name, author_url,
                    comments, query_raised, raised_at >>
    /\ UNCHANGED outsideExtraction

\* crawler.py:449-461, 513-526 and 358-360: the drop conditions, the
\* placeholder author, the record and its comment_id. The queries for the
\* timestamp (line 465) are not guarded: when one raises the function ends
\* with None (lines 528-530) whatever the drop conditions said.
BuildRecord ==
    /\ epc = "record"
    /\ \E raised \in BOOLEAN :
         IF raised
         THEN /\ raised_at' = raised_at \cup { idx }
              /\ UNCHANGED comments
         ELSE /\ comments' =
                    IF Dropped(author_name, comment_text) THEN comments
                    ELSE Append(comments,
                                CommentRecord(idx, author_name, author_url,
                                    comment_text,
                                    ExtractTimestamp(comment_elements[idx + 1],
                                        IF author_name = "" THEN "Unknown User"
                                        ELSE author_name,
                                        comment_text)))
              /\ UNCHANGED raised_at
    /\ author_name' = IF author_name = "" /\ comment_text # ""
                      THEN "Unknown User" ELSE author_name
    /\ idx' = idx + 1
    /\ epc' = "element"
    /\ UNCHANGED << dom, comment_elements, author_url, comment_text,
                    query_raised >>
    /\ UNCHANGED outsideExtraction

\* crawler.py:368: every element has been processed.
ReturnComments ==
    /\ epc = "element"
    /\ idx = Len(comment_elements)
    /\ epc' = "returned"
    /\ UNCHANGED << dom, comment_elements, idx, author_name, author_url,
                    comment_text, comments, query_raised, raised_at >>
    /\ UNCHANGED outsideExtraction

ExtractNext ==
    \/ DiscoverCommentElements
    \/ ExtractAuthorAndBody
    \/ CleanCommentText
    \/ BuildRecord
    \/ ReturnComments

ExtractSpec == ExtractInit /\ [][ExtractNext]_vars

(***************************************************************************)
(* Derived notions used by the properties of the extraction.               *)
(***************************************************************************)
\* Discovery has completed (no query raised).
Discovered ==
    \/ epc \in { "element", "clean", "record" }
    \/ epc = "returned" /\ ~query_raised

\* Strategy k is the first one with a match on the page.
FirstMatching(k) ==
    /\ QuerySelectorAll(dom, k) # << >>
    /\ \A j \in 1..(k - 1) : QuerySelectorAll(dom, j) = << >>
NoStrategyMatches ==
    \A k \in 1..Len(COMMENT_SELECTORS) : QuerySelectorAll(dom, k) = << >>

\* One of the URL patterns matches at index i of the text: http://, https://
\* or www. followed by at least one URL character.
UrlAt(s, i) ==
    \E p \in { "http://", "https://", "www." } :
        /\ StartsWithAt(s, i, p)
        /\ i + Len(p) <= Len(s)
        /\ IsUrlChar(Char(s, i + Len(p)))
\* The text holds a match of one of the URL patterns.
HasUrl(s) == \E i \in 1..Len(s) : UrlAt(s, i)

\* The record made from the candidate with enumerate index i, if any.
RecordsOf(i) ==
    { n \in 1..Len(comments) : comments[n].comment_id = "comment_" \o ToString(i) }

\* The candidate holds no link at all and its whole text is t.
LinklessWithText(el, t) ==
    /\ SelectSeq(el.parts, IsLink) = << >>
    /\ Strip(TextContent(el.parts)) = t

\* The candidate's only content is one button label, in whatever node.
LoneLabelNode(el) ==
    /\ Len(el.parts) = 1
    /\ el.parts[1].text \in BUTTON_LABELS

\* A whitespace-delimited word that is an http://, https:// or www. token:
\* it starts with a match of one of the patterns.
IsUrlToken(w) == UrlAt(w, 1)
IsNonUrlWord(w) == ~IsUrlToken(w)
\* The non-URL words of a body, in order, joined by single spaces.
NonUrlWords(s) == Join(SelectSeq(Split(s), IsNonUrlWord))

\* The step that evaluates the drop conditions, when no DOM operation of the
\* candidate's extraction raises: what it appends, and when it appends nothing.
C8_RecordStep ==
    (epc = "record" /\ idx \notin raised_at')
       => /\ (author_name = "" /\ Len(comment_text) >= 2)
                => /\ Len(comments') = Len(comments) + 1
                   /\ comments'[Len(comments')].comment_author_name = "Unknown User"
                   /\ comments'[Len(comments')].comment_text = comment_text
          /\ (comments' = comments)
                <=> (\/ author_name = "" /\ comment_text = ""
                     \/ Len(comment_text) < 2)
          /\ (comments' # comments)
                => SubSeq(comments', 1, Len(comments)) = comments

\* The discovery result is 3 comment nodes: well-formed comments, at least
\* one of them without any link and with the body "Nice post!!".
ThreeCommentNodes ==
    /\ Len(comment_elements) = 3
    /\ \A i \in 1..3 :
          \/ comment_elements[i].parts = GOOD_COMMENT
          \/ LinklessWithText(comment_elements[i], "Nice post!!")
    /\ \E i \in 1..3 : LinklessWithText(comment_elements[i], "Nice post!!")

\* The cleaning step leaves exactly the non-URL words of the raw body.
C10_CleanStep ==
    epc = "clean" => comment_text' = NonUrlWords(comment_text)

(***************************************************************************)
(* C6. Comment discovery returns exactly the matches of the first of the   *)
(* four strategies (in their fixed order) that has a match: once discovery *)
(* has completed, comment_elements is that strategy's result and nothing   *)
(* else; when no strategy matches it is the empty sequence, and the        *)
(* extraction then returns an empty list.                                  *)
(***************************************************************************)
C6_FirstMatchingStrategyWins ==
    /\ Discovered =>
          /\ \A k \in 1..Len(COMMENT_SELECTORS) :
                FirstMatching(k) => comment_elements = QuerySelectorAll(dom, k)
          /\ NoStrategyMatches => comment_elements = << >>
    /\ (epc = "returned" /\ NoStrategyMatches) => comments = << >>
    /\ (epc # "returned" /\ NoStrategyMatches /\ Discovered)
          => (idx = 0 /\ comments = << >> /\ raised_at = {})

\* The second strategy won although the fourth matches other elements, and
\* the run returned.
C6_Witness ==
    /\ epc = "returned" /\ ~query_raised
    /\ FirstMatching(2)
    /\ QuerySelectorAll(dom, 4) # << >>
    /\ QuerySelectorAll(dom, 4) # QuerySelectorAll(dom, 2)
    /\ comment_elements = QuerySelectorAll(dom, 2)

(***************************************************************************)
(* C7. Every record has a comment_text of length >= 2 that holds no match  *)
(* of the http://, https:// or www. URL patterns, whichever body strategy  *)
(* produced the text.                                                      *)
(***************************************************************************)
C7_RecordTextCleanAndLongEnough ==
    \A n \in 1..Len(comments) :
        /\ Len(comments[n].comment_text) >= MIN_COMMENT_LENGTH
        /\ ~HasUrl(comments[n].comment_text)

\* A record made from a candidate whose text held a URL.
C7_Witness ==
    /\ epc = "returned"
    /\ Len(comment_elements) = 1 /\ Len(comments) = 1
    /\ HasUrl(TextContent(comment_elements[1].parts))

(***************************************************************************)
(* C8. When the drop conditions are evaluated for a candidate (and no DOM  *)
(* operation of its extraction raises): with no author found and a cleaned *)
(* body of length >= 2 a record is appended whose comment_author_name is   *)
(* "Unknown User"; no record is appended exactly when neither author nor   *)
(* body was found or the cleaned body is shorter than 2. A page whose 3    *)
(* comment nodes are well-formed comments, at least one of them without    *)
(* any link and with the body "Nice post!!", yields 3 records.             *)
(***************************************************************************)
C8_UnknownUserAndDropConditions ==
    /\ [][C8_RecordStep]_vars
    /\ []((epc = "returned" /\ raised_at = {} /\ ThreeCommentNodes)
             => /\ Len(comments) = 3
                /\ \A i \in 1..3 :
                      LinklessWithText(comment_elements[i], "Nice post!!")
                         => /\ comments[i].comment_author_name = "Unknown User"
                            /\ comments[i].comment_text = "Nice post!!")

\* The scenario of the claim, returned.
C8_Witness ==
    /\ epc = "returned" /\ raised_at = {} /\ ThreeCommentNodes
    /\ Len(comments) = 3
    /\ \E i \in 1..3 : comments[i].comment_author_name = "Unknown User"
    /\ \E i \in 1..3 : comments[i].comment_author_name = "Ann"

(***************************************************************************)
(* C9. A candidate whose only content is a single button label (Like,      *)
(* Reply, Suka, Balas, Komentar, Comment), in a text node, an              *)
(* auto-direction node or a link, yields no record.                        *)
(***************************************************************************)
C9_LoneLabelYieldsNoRecord ==
    \A i \in 0..(idx - 1) :
        LoneLabelNode(comment_elements[i + 1]) => RecordsOf(i) = {}

(***************************************************************************)
(* C10. Cleaning a body leaves exactly its non-URL words, in order, joined *)
(* by single spaces, and cleaning a cleaned body changes nothing.          *)
(***************************************************************************)
C10_UrlTokensRemoved ==
    /\ [][C10_CleanStep]_vars
    /\ [](epc = "record" => CleanText(comment_text) = comment_text)

\* The link and span texts of a candidate that could be its timestamp: not
\* too long, neither its author nor its text, and looking like a time.
EligibleTimestamps(el, rec) ==
    { k \in 1..Len(TimeElementTexts(el.parts)) :
        LET t == TimeElementTexts(el.parts)[k]
        IN  /\ Len(t) <= 50
            /\ t # rec.comment_author_name /\ t # rec.comment_text
            /\ LooksLikeTime(t) }
\* ... and those that look like a time but are longer than 50 characters.
OverlongTimestamps(el) ==
    { k \in 1..Len(TimeElementTexts(el.parts)) :
        LET t == TimeElementTexts(el.parts)[k]
        IN  Len(t) > 50 /\ LooksLikeTime(t) }

(***************************************************************************)
(* C11. In every record comment_timestamp has at most 50 characters: a     *)
(* link/span text of 51 or more characters is never selected even when it  *)
(* looks like a time, and it does not end the scan: when a later (or any)  *)
(* candidate is eligible the timestamp is not left empty.                  *)
(***************************************************************************)
C11_TimestampAtMost50 ==
    \A i \in 0..(Len(comment_elements) - 1) : \A n \in RecordsOf(i) :
        LET el == comment_elements[i + 1]
            ts == comments[n].comment_timestamp
        IN  /\ Len(ts) <= 50
            /\ \A k \in OverlongTimestamps(el) : ts # TimeElementTexts(el.parts)[k]
            /\ EligibleTimestamps(el, comments[n]) # {} => ts # ""

\* A record whose node holds a 51-character time-like span before a short
\* one: the short one became the timestamp.
C11_Witness ==
    /\ epc = "returned" /\ Len(comments) = 1 /\ Len(comment_elements) = 1
    /\ \E k \in OverlongTimestamps(comment_elements[1]) :
          \E j \in EligibleTimestamps(comment_elements[1], comments[1]) :
              /\ k < j
              /\ comments[1].comment_timestamp
                    = TimeElementTexts(comment_elements[1].parts)[j]

\* The links of a candidate that carry an aria-label, and whether a link is a
\* generic nested one: in a span[dir=auto], an h4 or a strong, without
\* aria-label, role=link or a profile URL.
AriaLinks(el) ==
    { k \in 1..Len(el.parts) : IsLink(el.parts[k]) /\ el.parts[k].aria # "" }
GenericNestedLink(p) ==
    /\ IsLink(p) /\ p.aria = ""
    /\ p.wrap \in { "span_auto", "h4", "strong" }
    /\ \A k \in 1..3 : ~MatchesAuthorSelector(p, k)
\* One aria-labeled link and otherwise only generic nested links, at least one.
AriaAndNested(el, a) ==
    /\ AriaLinks(el) = { a }
    /\ \E k \in 1..Len(el.parts) : GenericNestedLink(el.parts[k])
    /\ \A k \in 1..Len(el.parts) :
          IsLink(el.parts[k]) /\ k # a => GenericNestedLink(el.parts[k])
AuthorIsLink(rec, p) ==
    /\ rec.comment_author_name = Strip(p.text)
    /\ rec.comment_author_url = p.href

POST_AUTHOR_SELECTORS ==
    << "h2 a", "h3 a", "[data-ad-preview=message] a", "a[role=link]" >>
\* crawler.py:85-89
CONTENT_SELECTORS ==
    << "[data-ad-preview=message]", "div[data-ad-comet-preview=message]",
       "[dir=auto]" >>
MAX_POST_CONTENT == 500  \* crawler.py:101

\* crawler.py:77-82: the first selector whose first match has a non-empty
\* stripped text; the last text read stays when every one is empty.
RECURSIVE PostAuthorFrom(_, _, _)
PostAuthorFrom(authors, k, last) ==
    IF k > Len(authors) THEN last
    ELSE IF authors[k] = << >> THEN PostAuthorFrom(authors, k + 1, last)
    ELSE IF Strip(authors[k][1]) # "" THEN Strip(authors[k][1])
    ELSE PostAuthorFrom(authors, k + 1, "")
PostAuthor(page) == PostAuthorFrom(page.authors, 1, "")

\* crawler.py:93-96, the inner loop on one selector's matches, entered with
\* post_content = "": the first non-empty stripped text is assigned and the
\* loop is left.
RECURSIVE FirstNonEmpty(_)
FirstNonEmpty(texts) ==
    IF texts = << >> THEN ""
    ELSE IF Strip(Head(texts)) # "" THEN Strip(Head(texts))
    ELSE FirstNonEmpty(Tail(texts))
\* crawler.py:91-98: the selectors in order, stopping at the first one that
\* gave a content.
RECURSIVE PostContentFrom(_, _)
PostContentFrom(contents, k) ==
    IF k > Len(contents) THEN ""
    ELSE IF FirstNonEmpty(contents[k]) # "" THEN FirstNonEmpty(contents[k])
    ELSE PostContentFrom(contents, k + 1)
PostContent(page) == PostContentFrom(page.contents, 1)

\* crawler.py:101-102
LimitContent_Cut(s) ==
    IF Len(s) > MAX_POST_CONTENT THEN SubSeq(s, 1, MAX_POST_CONTENT) ELSE s
LimitContent(s) ==
    IF Len(s) > MAX_POST_CONTENT
    THEN SubSeq(s, 1, MAX_POST_CONTENT) \o "..."
    ELSE s

\* Post pages: the texts of the content-bearing nodes have 0, 2, 9, 400, 500,
\* 501 and 600 characters (and one is blank); at most MaxContents nodes,
\* spread over the three content selectors.
CONTENT_TEXTS ==
    { "", "  ", "Hi", " Hello all ", Repeat("abcd", 100), Repeat("abcde", 100),
      Repeat("abcde", 100) \o "f", Repeat("abcdef", 100) }
RECURSIVE ContentsUpTo(_)
ContentsUpTo(n) ==
    IF n = 0 THEN { << << >>, << >>, << >> >> }
    ELSE ContentsUpTo(n - 1)
            \cup { [ c EXCEPT ![k] = Append(c[k], t) ] :
                      c \in ContentsUpTo(n - 1),
                      k \in 1..Len(CONTENT_SELECTORS), t \in CONTENT_TEXTS }
POST_AUTHORS ==
    { << << >>, << >>, << >>, << >> >>,
      << << "Ann" >>, << >>, << >>, << "Home" >> >>,
      << << " " >>, << >>, << " Bob " >>, << "Home" >> >> }
PostPages ==
    { [ url |-> "https://facebook.com/p/1", authors |-> a, contents |-> c ] :
          a \in POST_AUTHORS, c \in ContentsUpTo(MaxContents) }

PostInfoInit ==
    /\ ExpansionDone
    /\ ExtractionIdle
    /\ ipc = "author"
    /\ post_page \in PostPages
    /\ post_info = [ NoPostInfo EXCEPT !.post_url = post_page.url ]
    /\ untruncated = ""
    /\ info_raised = FALSE
    /\ SessionIdle
    /\ LoginIdle
    /\ ProfileIdle /\ page_handle = FALSE /\ ClickingIdle

\* except Exception (crawler.py:106-107): the dict is returned as it is.
PostInfoRaised ==
    /\ ipc' = "returned"
    /\ info_raised' = TRUE
    /\ UNCHANGED << post_page, post_info, untruncated >>

\* crawler.py:68-82
ExtractPostAuthor ==
    /\ ipc = "author"
    /\ \/ /\ ipc' = "content"
          /\ post_info' = [ post_info EXCEPT !.post_author = PostAuthor(post_page) ]
          /\ UNCHANGED << post_page, untruncated, info_raised >>
       \/ PostInfoRaised
    /\ UNCHANGED outsidePostInfo

\* crawler.py:84-98
ExtractPostContent ==
    /\ ipc = "content"
    /\ \/ /\ ipc' = "limit"
          /\ post_info' = [ post_info EXCEPT !.post_content = PostContent(post_page) ]
          /\ untruncated' = PostContent(post_page)
          /\ UNCHANGED << post_page, info_raised >>
       \/ PostInfoRaised
    /\ UNCHANGED outsidePostInfo

\* crawler.py:100-109
LimitContentLength ==
    /\ ipc = "limit"
    /\ ipc' = "returned"
    /\ post_info' = [ post_info EXCEPT
                        !.post_content = LimitContent(post_info.post_content) ]
    /\ UNCHANGED << post_page, untruncated, info_raised >>
    /\ UNCHANGED outsidePostInfo

PostInfoNext ==
    \/ ExtractPostAuthor
    \/ ExtractPostContent
    \/ LimitContentLength

PostInfoSpec == PostInfoInit /\ [][PostInfoNext]_vars

\* The stripped texts of all the nodes the content selectors match.
CandidateTexts ==
    UNION { { Strip(post_page.contents[k][j]) : j \in 1..Len(post_page.contents[k]) } :
            k \in 1..Len(post_page.contents) }
PostInfoReturned == ipc = "returned" /\ ~info_raised

(***************************************************************************)
(* C13. post_content is the extracted content s itself when s has at most  *)
(* 500 characters and the first 500 characters of s followed by "..."      *)
(* otherwise; it never exceeds 503 characters; 600 characters in give 503  *)
(* out and 400 characters are returned unchanged.                          *)
(***************************************************************************)
C13_ContentTruncatedTo500PlusEllipsis ==
    /\ ipc = "returned" => Len(post_info.post_content) <= 503
    /\ PostInfoReturned =>
          /\ Len(untruncated) <= 500 => post_info.post_content = untruncated
          /\ Len(untruncated) > 500 =>
                /\ Len(post_info.post_content) = 503
                /\ SubSeq(post_info.post_content, 1, 500) = SubSeq(untruncated, 1, 500)
                /\ SubSeq(post_info.post_content, 501, 503) = "..."
          /\ Len(untruncated) = 600 => Len(post_info.post_content) = 503
          /\ Len(untruncated) = 400 => post_info.post_content = untruncated

\* A 600-character content was cut to 503 characters.
C13_Witness ==
    /\ PostInfoReturned
    /\ Len(untruncated) = 600
    /\ Len(post_info.post_content) = 503

(***************************************************************************)
(* C14. Before truncation post_content is the longest non-empty text among *)
(* all the nodes matched by the content selectors: no candidate node of    *)
(* the page has a longer text than the one kept.                           *)
(***************************************************************************)
C14_LongestCandidateKept ==
    PostInfoReturned =>
        /\ untruncated \in CandidateTexts \cup { "" }
        /\ \A t \in CandidateTexts : Len(t) <= Len(untruncated)

(***************************************************************************)
(* Part 4: main.py:171-294 with crawl_post_comments (crawler.py:20-56) and *)
(* the exporters' add_comments and export.                                 *)
(***************************************************************************)
PostUrl(k) == "https://facebook.com/p/" \o ToString(k)

\* What _extract_post_info returns on the page of `url`: the dict of lines
\* 60-65 filled in, or only its URL when a page operation raised early
\* (post_timestamp is never assigned).
PostContextOf(url, complete) ==
    [ post_url |-> url,
      post_author |-> IF complete THEN "Author of " \o url ELSE "",
      post_content |-> IF complete THEN "Content of " \o url ELSE "",
      post_timestamp |-> "" ]
\* The four post fields of a dict.
PostFields(d) ==
    [ post_url |-> d.post_url, post_author |-> d.post_author,
      post_content |-> d.post_content, post_timestamp |-> d.post_timestamp ]
\* crawler.py:513-523 with 358-360: { **post_info, 'comment_id': ..., ... }
NewRecord(info, i) ==
    [ post_url |-> info.post_url, post_author |-> info.post_author,
      post_content |-> info.post_content,
      post_timestamp |-> info.post_timestamp,
      comment_id |-> "comment_" \o ToString(i) ]
\* The dict literal of line 513 is a new object; the alternative would be to
\* fill in and return post_info itself.
RecordRef_Shared(fresh, info_ref) == info_ref
RecordRef(fresh, info_ref) == fresh

\* list.extend (csv_exporter.py:32, json_exporter.py:32)
AddComments_Front(buffer, new) == new \o buffer
AddComments(buffer, new) == buffer \o new

\* Where an exception of page.goto is handled: crawler.py:54-56; without a
\* per-post handler it would end the run at main.py:290-294.
CrawlHandler_TopLevel == "top_level"
CrawlHandler == "per_post"

InPostLoop ==
    mpc \in { "loop", "goto", "post_info", "expand", "extract", "hand_csv",
              "hand_json" }

MainInit ==
    /\ ExpansionDone /\ ExtractionIdle /\ PostInfoIdle /\ LoginIdle
    /\ ProfileIdle /\ page_handle = FALSE /\ ClickingIdle
    /\ mpc = "launch"
    /\ post_urls \in { [ k \in 1..n |-> PostUrl(k) ] : n \in 1..MaxPosts }
    /\ post_n = 0
    /\ csv_active \in BOOLEAN /\ json_active \in BOOLEAN
    /\ csv_active \/ json_active
    /\ csv_data = << >> /\ json_data = << >>
    /\ csv_file = << >> /\ json_file = << >>
    /\ heap = << >> /\ post_info_ref = 0 /\ post_comments = << >>
    /\ attempted = << >> /\ returned = << >>
    /\ nav_failed = {} /\ inner_failed = {}
    /\ contexts = << >> /\ changed = 0
    /\ interrupt_swallowed = FALSE

\* Where main goes when the browser launch or the login raises an
\* Exception: the handler of main.py:290-294, which ends the run.
AfterStartupFailure_Continue == "loop"
AfterStartupFailure == "init_failed"

sessionData == << post_urls, post_n, csv_active, json_active, csv_data,
                 json_data, csv_file, json_file, heap, post_info_ref,
                 post_comments, attempted, returned, nav_failed, inner_failed,
                 contexts, changed, interrupt_swallowed >>

\* main.py:170-173: p.chromium.launch(...) returns a browser or raises.
LaunchBrowser ==
    /\ mpc = "launch"
    /\ \/ mpc' = "login"
       \/ mpc' = AfterStartupFailure
    /\ UNCHANGED << sessionData, page_handle >>
    /\ UNCHANGED outsideMain

\* main.py:176-177: auth.login(browser) returns the page or raises (login
\* re-raises what it could not handle, auth.py:165, 200, 210, 214).
AcquirePage ==
    /\ mpc = "login"
    /\ \/ mpc' = "loop" /\ page_handle' = TRUE
       \/ mpc' = AfterStartupFailure /\ UNCHANGED page_handle
    /\ UNCHANGED sessionData
    /\ UNCHANGED outsideMain

\* A KeyboardInterrupt during launch or login is not an Exception: it goes
\* to the handler of main.py:274.
StartupInterrupted ==
    /\ mpc \in { "launch", "login" }
    /\ mpc' = "interrupted"
    /\ UNCHANGED << sessionData, page_handle >>
    /\ UNCHANGED outsideMain

\* The status the process ends with: sys.exit(1) at main.py:294, sys.exit(0)
\* at main.py:289, a normal return of main otherwise.
ExitStatus ==
    CASE mpc \in { "init_failed", "fatal" } -> 1
      [] mpc \in { "done", "exit" } -> 0
      [] OTHER -> -1

\* main.py:209: for idx, post_url in enumerate(post_urls, 1)
NextPost ==
    /\ mpc = "loop"
    /\ IF post_n < Len(post_urls)
       THEN /\ post_n' = post_n + 1
            /\ mpc' = "goto"
       ELSE /\ mpc' = "export"
            /\ UNCHANGED post_n
    /\ post_info_ref' = 0 /\ post_comments' = << >>
    /\ UNCHANGED << post_urls, csv_active, json_active, csv_data, json_data,
                    csv_file, json_file, heap, attempted, returned,
                    nav_failed, inner_failed, contexts, changed,
                    interrupt_swallowed >>
    /\ UNCHANGED outsideSession

\* crawler.py:38: page.goto(post_url, timeout=...). A timeout or any other
\* exception goes to the handler of lines 54-56, which returns [].
Goto ==
    /\ mpc = "goto"
    /\ attempted' = Append(attempted, post_urls[post_n])
    /\ \/ /\ mpc' = "post_info"
          /\ UNCHANGED << returned, nav_failed, post_comments >>
       \/ /\ nav_failed' = nav_failed \cup { post_n }
          /\ IF CrawlHandler = "per_post"
             THEN /\ post_comments' = << >>
                  /\ returned' = Append(returned, << >>)
                  /\ mpc' = "hand_csv"
             ELSE /\ mpc' = "fatal"
                  /\ UNCHANGED << returned, post_comments >>
    /\ UNCHANGED << post_urls, post_n, csv_active, json_active, csv_data,
                    json_data, csv_file, json_file, heap, post_info_ref,
                    inner_failed, contexts, changed, interrupt_swallowed >>
    /\ UNCHANGED outsideSession

\* crawler.py:42: post_info = self._extract_post_info(); an exception inside
\* is caught there (line 106) and the dict is returned as far as it got.
ExtractPostInfo ==
    /\ mpc = "post_info"
    /\ \E complete \in BOOLEAN :
          /\ heap' = Append(heap, PostContextOf(post_urls[post_n], complete))
          /\ contexts' = Append(contexts,
                [ post |-> post_n,
                  value |-> PostContextOf(post_urls[post_n], complete) ])
          /\ inner_failed' = IF complete THEN inner_failed
                             ELSE inner_failed \cup { post_n }
    /\ post_info_ref' = Len(heap) + 1
    /\ mpc' = "expand"
    /\ UNCHANGED << post_urls, post_n, csv_active, json_active, csv_data,
                    json_data, csv_file, json_file, post_comments, attempted,
                    returned, nav_failed, changed, interrupt_swallowed >>
    /\ UNCHANGED outsideSession

\* crawler.py:45: self._expand_all_comments(max_comments); an exception
\* inside is caught there (line 184) and the function returns.
ExpandAllComments ==
    /\ mpc = "expand"
    /\ \E raised \in BOOLEAN :
          inner_failed' = IF raised THEN inner_failed \cup { post_n }
                          ELSE inner_failed
    /\ mpc' = "extract"
    /\ UNCHANGED << post_urls, post_n, csv_active, json_active, csv_data,
                    json_data, csv_file, json_file, heap, post_info_ref,
                    post_comments, attempted, returned, nav_failed, contexts,
                    changed, interrupt_swallowed >>
    /\ UNCHANGED outsideSession

\* crawler.py:48-52: comments = self._extract_comments(post_info); return
\* comments. n records are built; an exception inside is caught there (lines
\* 361, 365) and the records built before it are returned.
ExtractComments ==
    /\ mpc = "extract"
    /\ \E n \in 0..MaxRecords, raised \in BOOLEAN :
          /\ heap' = heap \o [ i \in 1..n |-> NewRecord(heap[post_info_ref], i - 1) ]
          /\ post_comments' =
                [ i \in 1..n |-> RecordRef(Len(heap) + i, post_info_ref) ]
          /\ returned' = Append(returned, post_comments')
          /\ inner_failed' = IF raised THEN inner_failed \cup { post_n }
                             ELSE inner_failed
    /\ mpc' = "hand_csv"
    /\ UNCHANGED << post_urls, post_n, csv_active, json_active, csv_data,
                    json_data, csv_file, json_file, post_info_ref, attempted,
                    nav_failed, contexts, changed, interrupt_swallowed >>
    /\ UNCHANGED outsideSession

\* main.py:220-223: if comments: if csv_exporter: csv_exporter.add_comments
AddToCsv ==
    /\ mpc = "hand_csv"
    /\ csv_data' = IF post_comments # << >> /\ csv_active
                   THEN AddComments(csv_data, post_comments)
                   ELSE csv_data
    /\ mpc' = "hand_json"
    /\ UNCHANGED << post_urls, post_n, csv_active, json_active, json_data,
                    csv_file, json_file, heap, post_info_ref, post_comments,
                    attempted, returned, nav_failed, inner_failed, contexts,
                    changed, interrupt_swallowed >>
    /\ UNCHANGED outsideSession

\* main.py:224-228: if json_exporter: json_exporter.add_comments(comments)
AddToJson ==
    /\ mpc = "hand_json"
    /\ json_data' = IF post_comments # << >> /\ json_active
                    THEN AddComments(json_data, post_comments)
                    ELSE json_data
    /\ mpc' = "loop"
    /\ UNCHANGED << post_urls, post_n, csv_active, json_active, csv_data,
                    csv_file, json_file, heap, post_info_ref, post_comments,
                    attempted, returned, nav_failed, inner_failed, contexts,
                    changed, interrupt_swallowed >>
    /\ UNCHANGED outsideSession

\* export (csv_exporter.py:35-59, json_exporter.py:35-59): the buffer is
\* written; an empty buffer writes nothing.
ExportAll ==
    /\ csv_file' = IF csv_active THEN csv_data ELSE << >>
    /\ json_file' = IF json_active THEN json_data ELSE << >>

\* main.py:234-272: the export after the loop.
ExportResults ==
    /\ mpc = "export"
    /\ ExportAll
    /\ mpc' = "done"
    /\ UNCHANGED << post_urls, post_n, csv_active, json_active, csv_data,
                    json_data, heap, post_info_ref, post_comments, attempted,
                    returned, nav_failed, inner_failed, contexts, changed,
                    interrupt_swallowed >>
    /\ UNCHANGED outsideSession

\* A KeyboardInterrupt is raised at the current point and no handler on the
\* way catches it (except Exception does not): main.py:274.
InterruptPropagates ==
    /\ InPostLoop
    /\ mpc' = "interrupted"
    /\ UNCHANGED << post_urls, post_n, csv_active, json_active, csv_data,
                    json_data, csv_file, json_file, heap, post_info_ref,
                    post_comments, attempted, returned, nav_failed,
                    inner_failed, contexts, changed, interrupt_swallowed >>
    /\ UNCHANGED outsideSession

\* A KeyboardInterrupt is raised inside a bare `except:` region: opening the
\* comment section during expansion (crawler.py:125-134) or looking for the
\* author during extraction (crawler.py:392-416). The clause catches it and
\* the crawl goes on.
InterruptSwallowed ==
    /\ mpc \in { "expand", "extract" }
    /\ interrupt_swallowed' = TRUE
    /\ UNCHANGED << mpc, post_urls, post_n, csv_active, json_active, csv_data,
                    json_data, csv_file, json_file, heap, post_info_ref,
                    post_comments, attempted, returned, nav_failed,
                    inner_failed, contexts, changed >>
    /\ UNCHANGED outsideSession

KeyboardInterrupt == InterruptPropagates \/ InterruptSwallowed

\* main.py:274-289: except KeyboardInterrupt: export, sys.exit(0)
SaveProgress ==
    /\ mpc = "interrupted"
    /\ ExportAll
    /\ mpc' = "exit"
    /\ UNCHANGED << post_urls, post_n, csv_active, json_active, csv_data,
                    json_data, heap, post_info_ref, post_comments, attempted,
                    returned, nav_failed, inner_failed, contexts, changed,
                    interrupt_swallowed >>
    /\ UNCHANGED outsideSession

\* A holder of the returned list assigns a post field of one of its records
\* (no code of the repository does; the step makes sharing observable).
ChangePostField ==
    /\ mpc = "hand_csv" /\ changed = 0
    /\ \E i \in 1..Len(post_comments) :
          /\ changed' = post_comments[i]
          /\ heap' = [ heap EXCEPT ![post_comments[i]].post_author = "changed" ]
    /\ UNCHANGED << mpc, post_urls, post_n, csv_active, json_active, csv_data,
                    json_data, csv_file, json_file, post_info_ref,
                    post_comments, attempted, returned, nav_failed,
                    inner_failed, contexts, interrupt_swallowed >>
    /\ UNCHANGED outsideSession

MainNext ==
    \/ LaunchBrowser
    \/ AcquirePage
    \/ StartupInterrupted
    \/ NextPost
    \/ Goto
    \/ ExtractPostInfo
    \/ ExpandAllComments
    \/ ExtractComments
    \/ AddToCsv
    \/ AddToJson
    \/ ExportResults
    \/ KeyboardInterrupt
    \/ SaveProgress
    \/ ChangePostField

MainSpec == MainInit /\ [][MainNext]_vars

(***************************************************************************)
(* Derived notions used by the properties of the post loop.                *)
(***************************************************************************)
RECURSIVE Flatten(_)
Flatten(lists) ==
    IF lists = << >> THEN << >> ELSE Head(lists) \o Flatten(Tail(lists))

IsPrefix(a, b) == Len(a) <= Len(b) /\ a = SubSeq(b, 1, Len(a))

\* No record of post k is in an exporter's buffer.
NothingBufferedOf(k) ==
    /\ \A j \in 1..Len(csv_data) : heap[csv_data[j]].post_url # post_urls[k]
    /\ \A j \in 1..Len(json_data) : heap[json_data[j]].post_url # post_urls[k]

\* The posts are attempted in order and, unless the run is interrupted, all
\* of them are.
AllPostsAttemptedInOrder ==
    /\ mpc # "fatal"
    /\ IsPrefix(attempted, post_urls)
    /\ mpc \in { "export", "done" } => attempted = post_urls

\* Each post in `failed` whose crawl_post_comments call has returned gave []
\* and nothing of it is buffered.
FailedPostsYieldNothing(failed) ==
    \A k \in failed \cap (1..Len(returned)) :
        returned[k] = << >> /\ NothingBufferedOf(k)

C16_InterruptStep == KeyboardInterrupt => mpc' = "interrupted"

\* The PostContext computed for the post being crawled.
CurrentContext == contexts[Len(contexts)].value

(***************************************************************************)
(* C15 as stated. Any exception while crawling a post (in navigation,      *)
(* post-info extraction, expansion or extraction) makes crawl_post_comments*)
(* return [] without raising, nothing of the post reaches an exporter's    *)
(* buffer, and every later post URL is still attempted, in order.          *)
(***************************************************************************)
C15_AnyFailureYieldsNoRecords ==
    /\ AllPostsAttemptedInOrder
    /\ FailedPostsYieldNothing(nav_failed \cup inner_failed)

(***************************************************************************)
(* C15 amended. A navigation failure makes crawl_post_comments return []   *)
(* without raising, nothing of the post reaches an exporter's buffer; and  *)
(* whatever fails, every later post URL is still attempted, in order.      *)
(***************************************************************************)
C15_NavigationFailureYieldsNoRecords ==
    /\ AllPostsAttemptedInOrder
    /\ FailedPostsYieldNothing(nav_failed)

\* The first of two posts failed at navigation, the second one was crawled
\* and gave records, and the run completed.
C15_Witness ==
    /\ mpc = "done"
    /\ nav_failed = { 1 }
    /\ Len(attempted) = 2
    /\ Len(returned) = 2 /\ returned[2] # << >>
    /\ csv_active /\ csv_file = returned[2]

(***************************************************************************)
(* C16. A KeyboardInterrupt raised at any point of the post loop reaches   *)
(* the handler of main.py:274, which exports every record the exporters    *)
(* hold and ends the run.                                                  *)
(***************************************************************************)
C16_InterruptReachesHandler ==
    /\ [][C16_InterruptStep]_vars
    /\ [](mpc = "exit" =>
            /\ csv_file = (IF csv_active THEN csv_data ELSE << >>)
            /\ json_file = (IF json_active THEN json_data ELSE << >>))

(***************************************************************************)
(* C17. The records of a post are handed to the exporters right after its  *)
(* crawl_post_comments call and before the next navigation: between two    *)
(* posts, and while the next post is being crawled, the buffer of each     *)
(* active exporter is the concatenation, in post order and within-post     *)
(* order, of the lists returned for the posts processed so far.            *)
(***************************************************************************)
C17_BuffersAreConcatenationOfReturned ==
    mpc \in { "loop", "goto", "post_info", "expand", "extract", "export" } =>
        /\ Len(returned) = (IF mpc \in { "loop", "export" } THEN post_n ELSE post_n - 1)
        /\ csv_data = (IF csv_active THEN Flatten(returned) ELSE << >>)
        /\ json_data = (IF json_active THEN Flatten(returned) ELSE << >>)

\* Two posts processed, each gave records, both exporters active.
C17_Witness ==
    /\ mpc = "loop" /\ post_n = 2
    /\ returned[1] # << >> /\ returned[2] # << >>
    /\ csv_active /\ json_active
    /\ Len(csv_data) = Len(returned[1]) + Len(returned[2])

(***************************************************************************)
(* C18. The PostContext is computed once per post, before expansion and    *)
(* extraction; every record of one crawl_post_comments call carries its    *)
(* four post fields; every record is a dict of its own, so that after one  *)
(* record's post field is changed the PostContext and the other records    *)
(* still carry the computed values.                                        *)
(***************************************************************************)
C18_RecordsCarryOwnCopyOfPostContext ==
    /\ \A i, j \in 1..Len(contexts) :
          contexts[i].post = contexts[j].post => i = j
    /\ mpc \in { "expand", "extract", "hand_csv", "hand_json" }
       /\ post_n \notin nav_failed =>
          /\ contexts # << >> /\ contexts[Len(contexts)].post = post_n
          /\ post_info_ref # 0
          /\ PostFields(heap[post_info_ref]) = CurrentContext
          /\ \A i \in 1..Len(post_comments) :
                /\ post_comments[i] # post_info_ref
                /\ \A j \in 1..Len(post_comments) :
                      post_comments[i] = post_comments[j] => i = j
                /\ post_comments[i] # changed =>
                      PostFields(heap[post_comments[i]]) = CurrentContext
                /\ heap[post_comments[i]].post_url = CurrentContext.post_url
    /\ \A b \in { csv_data, json_data } : \A j \in 1..Len(b) :
          b[j] # changed =>
              \E c \in 1..Len(contexts) :
                  PostFields(heap[b[j]]) = contexts[c].value

\* Two records were returned for a post and one of them had a post field
\* changed: the other one and the PostContext are as computed.
C18_Witness ==
    /\ mpc = "hand_json" /\ Len(post_comments) = 2
    /\ changed = post_comments[1]
    /\ heap[changed].post_author = "changed"
    /\ PostFields(heap[post_comments[2]]) = CurrentContext
    /\ PostFields(heap[post_info_ref]) = CurrentContext
    /\ CurrentContext.post_author # ""

(***************************************************************************)
(* Part 5: FacebookAuth.login, _perform_login, _is_logged_in and           *)
(* _check_for_captcha (auth.py:22-287); save_cookies and load_cookies      *)
(* (utils.py:117-142). The cookie file is assumed writable.                *)
(***************************************************************************)
MAX_RETRIES == 3  \* auth.py:149

\* What a page can show after a navigation, a click or a manual step.
PAGE_URLS ==
    { "https://facebook.com/", "https://facebook.com/login/",
      "https://facebook.com/checkpoint/1",
      "https://facebook.com/Two_Step_Verification/",
      "https://facebook.com/authentication/", "https://example.com/" }
PageStates ==
    { [ url |-> u, form |-> f, captcha |-> c ] :
          u \in PAGE_URLS, f \in BOOLEAN, c \in BOOLEAN }

\* auth.py:226, 263-267
CHALLENGE_PATTERNS == { "/checkpoint/", "/two_step_verification/", "/authentication/" }
OnChallengeUrl(url) == \E p \in CHALLENGE_PATTERNS : Contains(Lower(url), p)

\* auth.py:224-250, the checks of _is_logged_in in their order, for every
\* page state (tabulated once).
LoggedInAnswer ==
    [ ps \in PageStates |->
        IF OnChallengeUrl(ps.url) THEN FALSE
        ELSE IF ps.form THEN FALSE
        ELSE IF Contains(Lower(ps.url), "login") THEN FALSE
        ELSE Contains(ps.url, "facebook.com") ]
\* auth.py:258-292, the checks of _check_for_captcha
CaptchaAnswer ==
    [ ps \in PageStates |-> OnChallengeUrl(ps.url) \/ ps.captcha ]

\* auth.py:216-254. `raised`: a page operation raised, caught at line 252.
IsLoggedIn_FormIgnored(ps, raised) ==
    IF raised THEN FALSE
    ELSE IF OnChallengeUrl(ps.url) THEN FALSE
    ELSE IF Contains(Lower(ps.url), "login") THEN FALSE
    ELSE Contains(ps.url, "facebook.com")
IsLoggedIn(ps, raised) == IF raised THEN FALSE ELSE LoggedInAnswer[ps]

\* auth.py:256-297. `raised`: caught at line 295.
CheckForCaptcha(ps, raised) == IF raised THEN FALSE ELSE CaptchaAnswer[ps]

LoginInit ==
    /\ ExpansionDone /\ ExtractionIdle /\ PostInfoIdle /\ SessionIdle
    /\ ProfileIdle /\ page_handle = FALSE /\ ClickingIdle
    /\ lpc = "start"
    /\ use_saved_cookies \in BOOLEAN
    /\ store \in { "none", "empty", "saved", "corrupt" }
    /\ page_id = 0 /\ page_state = NoPageState
    /\ attempt = 0 /\ handed = 0
    /\ checked = NotChecked /\ ever_true = FALSE
    /\ store_ops = << >>
    /\ verifications = << >>

\* _is_logged_in() was called on self.page and answered r.
CheckedLogin(r) ==
    /\ checked' = [ page |-> page_id, result |-> r ]
    /\ ever_true' = (ever_true \/ r)
\* return self.page
ReturnPage ==
    /\ lpc' = "returned"
    /\ handed' = page_id
\* save_cookies(self.context.cookies()) (utils.py:117-125)
SaveCookies ==
    /\ store' = "fresh"
    /\ store_ops' = Append(store_ops, [ op |-> "write", logged_in |-> checked'.result ])
\* An exception leaves login: raised at lines 165, 200, 210 or by a page
\* operation, logged and re-raised at lines 212-214.
LoginRaises ==
    /\ lpc' = "raised"
    /\ UNCHANGED << use_saved_cookies, store, page_id, page_state, attempt,
                    handed, checked, ever_true, store_ops >>

\* auth.py:36-38 with utils.py:128-142: the store is read when
\* use_saved_cookies; a missing or unreadable file gives None, and `if
\* cookies` is also false for an empty list.
LoadCookies ==
    /\ lpc = "start"
    /\ IF use_saved_cookies
       THEN /\ store_ops' = Append(store_ops, [ op |-> "read", logged_in |-> FALSE ])
            /\ lpc' = IF store = "saved" THEN "cookie_goto" ELSE "goto"
       ELSE /\ lpc' = "goto"
            /\ UNCHANGED store_ops
    /\ UNCHANGED << use_saved_cookies, store, page_id, page_state, attempt,
                    handed, checked, ever_true >>
    /\ UNCHANGED outsideLogin

\* auth.py:41-50: context with the cookies, new page, goto facebook.com. An
\* exception here leaves login (there is no handler).
CookieNavigate ==
    /\ lpc = "cookie_goto"
    /\ \/ /\ lpc' = "cookie_check"
          /\ page_id' = 1
          /\ page_state' \in PageStates
          /\ UNCHANGED << use_saved_cookies, store, attempt, handed, checked,
                          ever_true, store_ops >>
       \/ LoginRaises
    /\ UNCHANGED outsideLogin

\* auth.py:53-61
CookieCheck ==
    /\ lpc = "cookie_check"
    /\ \E raised \in BOOLEAN :
          LET logged_in == IsLoggedIn(page_state, raised)
          IN  /\ CheckedLogin(logged_in)
              /\ IF logged_in
                 THEN /\ ReturnPage
                      /\ UNCHANGED << page_id, page_state >>
                 ELSE /\ lpc' = "goto"
                      /\ page_id' = 0 /\ page_state' = NoPageState
                      /\ UNCHANGED handed
    /\ UNCHANGED << use_saved_cookies, store, attempt, store_ops >>
    /\ UNCHANGED outsideLogin

\* auth.py:64-74, 82-83: fresh context and page, goto facebook.com
PerformLoginGoto ==
    /\ lpc = "goto"
    /\ \/ /\ lpc' = "form"
          /\ page_id' = 2
          /\ page_state' \in PageStates
          /\ UNCHANGED << use_saved_cookies, store, attempt, handed, checked,
                          ever_true, store_ops >>
       \/ LoginRaises
    /\ UNCHANGED outsideLogin

\* auth.py:85-121 and 201-205: wait for the email input (a timeout raises),
\* fill the form; with a login button click it and wait, without one ask
\* for a manual login. Either way the page then shows whatever it shows.
FillAndSubmit ==
    /\ lpc = "form"
    /\ \/ /\ page_state.form
          /\ \E button \in BOOLEAN :
                lpc' = IF button THEN "challenge" ELSE "fallback"
          /\ page_state' \in PageStates
          /\ UNCHANGED << use_saved_cookies, store, page_id, attempt, handed,
                          checked, ever_true, store_ops >>
       \/ LoginRaises
    /\ UNCHANGED outsideLogin

\* auth.py:124-148: on a challenge the person is asked to solve it, then the
\* verification loop starts.
CheckChallenge ==
    /\ lpc = "challenge"
    /\ \E raised \in BOOLEAN :
          IF CheckForCaptcha(page_state, raised)
          THEN /\ lpc' = "verify"
               /\ page_state' \in PageStates
          ELSE /\ lpc' = "check"
               /\ UNCHANGED page_state
    /\ attempt' = 0
    /\ UNCHANGED << use_saved_cookies, store, page_id, handed, checked,
                    ever_true, store_ops >>
    /\ UNCHANGED outsideLogin

\* auth.py:157: if is_logged_in and not has_challenge
VerifiedOk_LoginOnly(is_logged_in, has_challenge) == is_logged_in
VerifiedOk(is_logged_in, has_challenge) == is_logged_in /\ ~has_challenge

\* auth.py:149-170: up to three attempts, then the exception of line 165.
VerifyAfterChallenge ==
    /\ lpc = "verify"
    /\ IF attempt < MAX_RETRIES
       THEN \E r1, r2 \in BOOLEAN :
               LET is_logged_in == IsLoggedIn(page_state, r1)
                   has_challenge == CheckForCaptcha(page_state, r2)
               IN
               /\ CheckedLogin(is_logged_in)
               /\ verifications' =
                     Append(verifications, [ is_logged_in |-> is_logged_in,
                                             has_challenge |-> has_challenge ])
               /\ IF VerifiedOk(is_logged_in, has_challenge)
                  THEN /\ SaveCookies
                       /\ ReturnPage
                       /\ UNCHANGED << page_state, attempt >>
                  ELSE /\ attempt' = attempt + 1
                       /\ page_state' \in PageStates
                       /\ UNCHANGED << lpc, handed, store, store_ops >>
               /\ UNCHANGED << use_saved_cookies, page_id >>
       ELSE LoginRaises /\ UNCHANGED verifications
    /\ UNCHANGED outsideVerify

\* auth.py:173-191: no challenge; logged in: save the cookies and return;
\* otherwise ask for a manual login.
CheckLogin ==
    /\ lpc = "check"
    /\ \E raised \in BOOLEAN :
          LET logged_in == IsLoggedIn(page_state, raised) IN
          /\ CheckedLogin(logged_in)
          /\ IF logged_in
             THEN /\ SaveCookies
                  /\ ReturnPage
                  /\ UNCHANGED page_state
             ELSE /\ lpc' = "manual"
                  /\ page_state' \in PageStates
                  /\ UNCHANGED << handed, store, store_ops >>
    /\ UNCHANGED << use_saved_cookies, page_id, attempt >>
    /\ UNCHANGED outsideLogin

\* auth.py:193-200
ManualCheck ==
    /\ lpc = "manual"
    /\ \E raised \in BOOLEAN :
          LET logged_in == IsLoggedIn(page_state, raised) IN
          /\ CheckedLogin(logged_in)
          /\ IF logged_in
             THEN /\ SaveCookies
                  /\ ReturnPage
             ELSE /\ lpc' = "raised"
                  /\ UNCHANGED << handed, store, store_ops >>
    /\ UNCHANGED << use_saved_cookies, page_id, page_state, attempt >>
    /\ UNCHANGED outsideLogin

\* auth.py:207-210: the manual fallback without a login button
FallbackCheck ==
    /\ lpc = "fallback"
    /\ \E raised \in BOOLEAN :
          LET logged_in == IsLoggedIn(page_state, raised) IN
          /\ CheckedLogin(logged_in)
          /\ IF logged_in
             THEN ReturnPage
             ELSE /\ lpc' = "raised"
                  /\ UNCHANGED handed
    /\ UNCHANGED << use_saved_cookies, store, page_id, page_state, attempt,
                    store_ops >>
    /\ UNCHANGED outsideLogin

LoginNext ==
    \/ LoadCookies
    \/ CookieNavigate
    \/ CookieCheck
    \/ PerformLoginGoto
    \/ FillAndSubmit
    \/ CheckChallenge
    \/ VerifyAfterChallenge
    \/ CheckLogin
    \/ ManualCheck
    \/ FallbackCheck

LoginSpec == LoginInit /\ [][LoginNext]_vars

(***************************************************************************)
(* Derived notions used by the properties of the login.                    *)
(***************************************************************************)
LoginEnded == lpc \in { "returned", "raised" }
OpsOf(kind) == { i \in 1..Len(store_ops) : store_ops[i].op = kind }
\* The page shows facebook.com and neither a login form, a login URL nor a
\* challenge URL.
ShowsLoggedIn(ps) ==
    /\ ~ps.form
    /\ Contains(ps.url, "facebook.com")
    /\ ~Contains(Lower(ps.url), "login")
    /\ \A p \in { "/checkpoint/", "/two_step_verification/", "/authentication/" } :
          ~Contains(Lower(ps.url), p)

(***************************************************************************)
(* C19. login returns a page only when _is_logged_in returned True on that *)
(* page, which then shows no login form, no login URL and no challenge     *)
(* URL; when the check never returned True, login ends by raising and no   *)
(* page is handed over.                                                    *)
(***************************************************************************)
C19_PageHandedOnlyWhenLoggedIn ==
    /\ lpc = "returned" =>
          /\ handed # 0 /\ handed = page_id
          /\ checked = [ page |-> handed, result |-> TRUE ]
          /\ ShowsLoggedIn(page_state)
    /\ lpc # "returned" => handed = 0
    /\ LoginEnded /\ ~ever_true => lpc = "raised"

\* The saved cookies had expired and the fresh login succeeded: the page of
\* the fresh context was returned after its own check.
C19_Witness ==
    /\ lpc = "returned" /\ handed = 2
    /\ Len(store_ops) = 2
    /\ checked = [ page |-> 2, result |-> TRUE ]

(***************************************************************************)
(* C20. The cookie store is read at most once, before any write, and       *)
(* written at most once; a write happens only after the logged-in check    *)
(* returned True; every login that succeeds by a fresh or manual login     *)
(* (not by the saved cookies) has written the store exactly once when it   *)
(* returns the page.                                                       *)
(***************************************************************************)
C20_CookieStoreReadOnceWrittenOnce ==
    /\ Cardinality(OpsOf("read")) <= 1
    /\ Cardinality(OpsOf("write")) <= 1
    /\ \A r \in OpsOf("read") : \A w \in OpsOf("write") : r < w
    /\ \A w \in OpsOf("write") : store_ops[w].logged_in
    /\ lpc = "returned" /\ handed = 2 => Cardinality(OpsOf("write")) = 1

(***************************************************************************)
(* Part 6: ProfileCrawler.get_posts_from_profile, _extract_post_urls and   *)
(* _is_valid_post_url (profile_crawler.py:20-202).                         *)
(***************************************************************************)
\* profile_crawler.py:127-134: what the six link selectors look for in href
LINK_SELECTORS ==
    << "/posts/", "/story.php", "/permalink.php", "/videos/", "/reel/", "/photo" >>
\* profile_crawler.py:168-178
INVALID_PATTERNS ==
    { "/about", "/friends", "/photos", "/videos/?", "/groups", "/events",
      "photo.php?fbid", "/reels?", "/watch" }
\* profile_crawler.py:189-196
VALID_PATTERNS ==
    { "/posts/", "/story.php?", "/permalink.php?", "/videos/", "/reel/",
      "/photo.php?" }

\* profile_crawler.py:164-202
IsValidPostUrl(url) ==
    IF \E p \in INVALID_PATTERNS : Contains(url, p) THEN FALSE
    ELSE IF ~Contains(url, "facebook.com") /\ ~StartsWithAt(url, 1, "/") THEN FALSE
    ELSE \E p \in VALID_PATTERNS : Contains(url, p)

\* href.split('?')[0] (profile_crawler.py:151)
RECURSIVE QueryStart(_, _)
QueryStart(s, i) ==
    IF i > Len(s) THEN Len(s) + 1
    ELSE IF Char(s, i) = "?" THEN i
    ELSE QueryStart(s, i + 1)
BeforeQuery_Kept(href) == href
BeforeQuery(href) == SubSeq(href, 1, QueryStart(href, 1) - 1)

\* profile_crawler.py:147-151
NormalizeHref(href) ==
    BeforeQuery(IF StartsWithAt(href, 1, "/")
                THEN "https://www.facebook.com" \o href
                ELSE href)

\* The href attributes a profile page can show ("": a link without href).
HREFS ==
    { "/u/posts/1", "/u/posts/1?comment_id=9",
      "https://www.facebook.com/u/posts/2?ref=a", "/reel/3",
      "/story.php?id=4", "/u/photos", "" }
\* profile_crawler.py:136-158 on a page showing the links `shown`: every
\* link a selector matches whose href is valid, normalized; list(set(..)).
\* A link whose get_attribute raises is skipped (line 154), which is the
\* page not showing it; a query that raises gives [] (line 160), which is
\* the page showing nothing.
ExtractPostUrls(shown) ==
    { NormalizeHref(h) :
        h \in { x \in shown :
                  /\ \E k \in 1..Len(LINK_SELECTORS) : Contains(x, LINK_SELECTORS[k])
                  /\ x # "" /\ IsValidPostUrl(x) } }
\* What one scan can return, over every page.
ScanResults == { ExtractPostUrls(shown) : shown \in SUBSET HREFS }

\* list(post_urls): a set has no order of its own.
RECURSIVE Orderings(_)
Orderings(S) ==
    IF S = {} THEN { << >> }
    ELSE UNION { { << x >> \o o : o \in Orderings(S \ { x }) } : x \in S }
\* profile_crawler.py:90: list(post_urls)[:max_posts]
Take(list, n) == SubSeq(list, 1, Min(n, Len(list)))

\* profile_crawler.py:74-75
ResetCounter_Kept(n) == n
ResetCounter(n) == 0

ProfileInit ==
    /\ ExpansionDone /\ ExtractionIdle /\ PostInfoIdle /\ SessionIdle
    /\ LoginIdle /\ page_handle = FALSE /\ ClickingIdle
    /\ ppc = "goto"
    /\ wanted \in 1..MaxWanted
    /\ scroll_limit \in 0..MaxScrollLimit
    /\ collected = {}
    /\ scroll_count = 0 /\ no_new_posts_count = 0 /\ previous_count = 0
    /\ post_urls_list = << >>
    /\ stop_reason = "running"
    /\ empty_scans = 0 /\ scans = 0

\* except Exception (profile_crawler.py:95-97): return []
ProfileRaised ==
    /\ ppc' = "returned"
    /\ stop_reason' = "error"
    /\ post_urls_list' = << >>
    /\ UNCHANGED << wanted, scroll_limit, collected, scroll_count,
                    no_new_posts_count, previous_count, empty_scans, scans >>

\* profile_crawler.py:41-51
GotoProfile ==
    /\ ppc = "goto"
    /\ \/ /\ ppc' = "loop"
          /\ UNCHANGED << wanted, scroll_limit, collected, scroll_count,
                          no_new_posts_count, previous_count, post_urls_list,
                          stop_reason, empty_scans, scans >>
       \/ ProfileRaised
    /\ UNCHANGED outsideProfile

\* profile_crawler.py:53: while len(post_urls) < max_posts and scroll_count < limit
ProfileLoopTest ==
    /\ ppc = "loop"
    /\ IF Cardinality(collected) < wanted /\ scroll_count < scroll_limit
       THEN /\ ppc' = "scan"
            /\ UNCHANGED stop_reason
       ELSE /\ ppc' = "finish"
            /\ stop_reason' = IF Cardinality(collected) >= wanted THEN "target"
                              ELSE "limit"
    /\ UNCHANGED << wanted, scroll_limit, collected, scroll_count,
                    no_new_posts_count, previous_count, post_urls_list,
                    empty_scans, scans >>
    /\ UNCHANGED outsideProfile

\* profile_crawler.py:55-59
ScanPage ==
    /\ ppc = "scan"
    /\ previous_count' = Cardinality(collected)
    /\ \E new_urls \in ScanResults :
          /\ collected' = collected \cup new_urls
          /\ empty_scans' = IF new_urls \subseteq collected
                            THEN empty_scans + 1 ELSE 0
    /\ scans' = scans + 1
    /\ ppc' = "test"
    /\ UNCHANGED << wanted, scroll_limit, scroll_count, no_new_posts_count,
                    post_urls_list, stop_reason >>
    /\ UNCHANGED outsideProfile

\* profile_crawler.py:64-81: the three stop conditions inside the loop
StopTests ==
    /\ ppc = "test"
    /\ IF Cardinality(collected) >= wanted
       THEN /\ ppc' = "finish" /\ stop_reason' = "target"
            /\ UNCHANGED no_new_posts_count
       ELSE /\ no_new_posts_count' =
                  IF Cardinality(collected) = previous_count
                  THEN no_new_posts_count + 1
                  ELSE ResetCounter(no_new_posts_count)
            /\ IF Cardinality(collected) = previous_count /\ no_new_posts_count' >= 3
               THEN ppc' = "finish" /\ stop_reason' = "no_new"
               ELSE \E on_profile \in BOOLEAN :
                       IF on_profile
                       THEN ppc' = "scroll" /\ UNCHANGED stop_reason
                       ELSE ppc' = "finish" /\ stop_reason' = "left_profile"
    /\ UNCHANGED << wanted, scroll_limit, collected, scroll_count,
                    previous_count, post_urls_list, empty_scans, scans >>
    /\ UNCHANGED outsideProfile

\* profile_crawler.py:84-87
ScrollProfile ==
    /\ ppc = "scroll"
    /\ \/ /\ scroll_count' = scroll_count + 1
          /\ ppc' = "loop"
          /\ UNCHANGED << wanted, scroll_limit, collected, no_new_posts_count,
                          previous_count, post_urls_list, stop_reason,
                          empty_scans, scans >>
       \/ ProfileRaised
    /\ UNCHANGED outsideProfile

\* profile_crawler.py:90-93
ReturnPostUrls ==
    /\ ppc = "finish"
    /\ post_urls_list' \in { Take(o, wanted) : o \in Orderings(collected) }
    /\ ppc' = "returned"
    /\ UNCHANGED << wanted, scroll_limit, collected, scroll_count,
                    no_new_posts_count, previous_count, stop_reason,
                    empty_scans, scans >>
    /\ UNCHANGED outsideProfile

ProfileNext ==
    \/ GotoProfile
    \/ ProfileLoopTest
    \/ ScanPage
    \/ StopTests
    \/ ScrollProfile
    \/ ReturnPostUrls

ProfileSpec == ProfileInit /\ [][ProfileNext]_vars

\* ---- Derived notions for the claims about the profile crawl ----
ProfileReturned == ppc = "returned"
InProfileLoop == ppc \in { "loop", "scan", "test", "scroll" }
NoDuplicates(list) ==
    \A i, j \in 1..Len(list) : list[i] = list[j] => i = j
\* Steps the loop can still take: four per remaining scroll.
ProfileMeasure ==
    IF ~InProfileLoop THEN 0
    ELSE 4 * (scroll_limit - scroll_count + 1)
         - (CASE ppc = "loop" -> 0 [] ppc = "scan" -> 1
              [] ppc = "test" -> 2 [] OTHER -> 3)

\* C21: the list get_posts_from_profile returns has no URL twice, no URL
\* with a '?' in it, and at most max_posts entries, whatever the pages
\* showed.
C21_ReturnedUrlsDistinctCleanBounded ==
    ProfileReturned =>
        /\ NoDuplicates(post_urls_list)
        /\ \A i \in 1..Len(post_urls_list) : ~Contains(post_urls_list[i], "?")
        /\ Len(post_urls_list) <= wanted
\* More URLs were collected than asked for, one of them from a link with a
\* query string, and the returned list is full.
C21_Witness ==
    /\ ProfileReturned
    /\ Cardinality(collected) > wanted
    /\ Len(post_urls_list) = wanted
    /\ wanted >= 2
    /\ \E i \in 1..Len(post_urls_list) :
          post_urls_list[i] = "https://www.facebook.com/story.php"

\* C29: the profile loop terminates: it scrolls at most scroll_limit
\* times, never scans or scrolls once max_posts URLs are collected, stops at
\* the third consecutive scan that adds nothing and never earlier on that
\* ground, the counter being reset by every scan that adds a URL; each
\* step of the loop decreases a non-negative measure.
C29_ProfileLoopTerminates ==
    /\ [](/\ scroll_count <= scroll_limit
          /\ scans <= scroll_limit
          /\ scans <= scroll_count + 1
          /\ ProfileMeasure >= 0
          /\ (ppc \in { "scan", "scroll" } => Cardinality(collected) < wanted)
          /\ empty_scans <= 3
          /\ (ppc = "scroll" => empty_scans < 3)
          /\ (ppc \in { "loop", "scroll" } => no_new_posts_count = empty_scans)
          /\ (stop_reason = "no_new" => empty_scans = 3)
          /\ (stop_reason = "target" => Cardinality(collected) >= wanted)
          /\ (stop_reason = "limit" => scroll_count = scroll_limit))
    /\ [][InProfileLoop => ProfileMeasure' < ProfileMeasure]_vars
\* The loop stopped on three empty scans in a row after an earlier scan had
\* added a URL and an earlier empty scan had been forgotten.
C29_Witness ==
    /\ stop_reason = "no_new"
    /\ empty_scans = 3
    /\ scans >= 5
    /\ collected # {}
    /\ ProfileReturned

(***************************************************************************)
(* Properties of the start of a run (main.py:169-177, 290-294).            *)
(***************************************************************************)
NothingCrawledOrExported ==
    /\ attempted = << >> /\ returned = << >> /\ post_n = 0
    /\ csv_data = << >> /\ json_data = << >>
    /\ csv_file = << >> /\ json_file = << >>
StartupFailed == mpc = "init_failed"

\* C22: when the browser launch or the login raises, so that main holds no
\* page, no post is crawled, nothing is exported, the run ends there and
\* its exit status is 1; no post is ever attempted without a page.
C22_NoPageNoCrawlFailureExit ==
    /\ [](/\ (~page_handle => NothingCrawledOrExported)
          /\ (InPostLoop \/ mpc \in { "export", "done" } => page_handle)
          /\ (StartupFailed => ~page_handle /\ ExitStatus = 1))
    /\ [][~StartupFailed]_vars
\* The browser was launched, the login raised, and the run has ended with
\* two posts still to crawl.
C22_Witness ==
    /\ StartupFailed
    /\ ~page_handle
    /\ Len(post_urls) = 2
    /\ csv_active /\ json_active

(***************************************************************************)
(* Part 7: the click passes, element by element (crawler.py:111-142,       *)
(* 222-253, 255-299).                                                      *)
(***************************************************************************)
\* crawler.py:115-123
COMMENT_BUTTON_SELECTORS ==
    << "text=/View.*comment/i", "text=/Lihat.*komentar/i",
       "[aria-label*=comment]", "[aria-label*=Comment]",
       "[aria-label*=Komentar]", "div[role=button]:has-text(Comment)",
       "div[role=button]:has-text(Komentar)" >>

\* What one strategy of _open_comment_section can meet: wait_for_selector
\* times out, the match is not visible, an operation on the match raises,
\* or the match is visible and click() returns.
STRATEGY_OUTCOMES == { "timeout", "invisible", "failed", "visible" }

\* crawler.py:130-131: `return True` right after the click.
AfterClick_Continue == "continue"
AfterClick == "return"

\* crawler.py:240: buttons[:50]
Sliced_All(n) == n
Sliced(n) == Min(n, REPLY_LIMIT)

\* How many elements a reply selector can match.
MATCH_COUNTS == { 0, 1, REPLY_LIMIT - 1, REPLY_LIMIT, MaxMatches }

\* crawler.py:286: any(text in button_text.lower() for text in [...])
SEE_MORE_TEXTS == { "see more", "lihat selengkapnya" }
IsSeeMoreText_Any(text) == TRUE
IsSeeMoreText(text) ==
    \E t \in SEE_MORE_TEXTS : Contains(Lower(Strip(text)), t)

\* An element a "see more" selector can match: its own text, its aria-label,
\* whether it is a div with role=button, whether it is visible.
Button(text, aria, div, vis) ==
    [ text |-> text, aria |-> aria, div |-> div, vis |-> vis ]
SEE_MORE_ELEMENTS ==
    { Button("See more", "", TRUE, TRUE),
      Button("See more", "", TRUE, FALSE),
      Button(" LIHAT SELENGKAPNYA ", "", FALSE, TRUE),
      Button("", "See more", TRUE, TRUE),
      Button("Share", "See more options", TRUE, TRUE),
      Button("Tutup", "Lihat selengkapnya", FALSE, TRUE) }

\* Whether see_more_selectors[k] (crawler.py:261-268) matches element e: the
\* text selectors look for the text case-insensitively, the has-text ones
\* also want a div with role=button, the attribute ones look into aria-label.
SeeMoreSelectorMatches(k, e) ==
    CASE k = 1 -> Contains(Lower(e.text), "see more")
      [] k = 2 -> Contains(Lower(e.text), "lihat selengkapnya")
      [] k = 3 -> e.div /\ Contains(Lower(e.text), "see more")
      [] k = 4 -> e.div /\ Contains(Lower(e.text), "lihat selengkapnya")
      [] k = 5 -> Contains(e.aria, "See more")
      [] OTHER -> Contains(e.aria, "Lihat selengkapnya")
\* What query_selector_all can return for selector k: none, one or two of
\* the elements it matches, in some document order.
SeeMoreResults ==
    [ k \in 1..Len(SEE_MORE_SELECTORS) |->
        LET M == { e \in SEE_MORE_ELEMENTS : SeeMoreSelectorMatches(k, e) }
        IN  { << >> } \cup { << e >> : e \in M }
            \cup { << e, f >> : << e, f >> \in { p \in M \X M : p[1] # p[2] } } ]

\* The operations on an element that can raise.
ELEMENT_OPERATIONS == { "is_visible", "text_content", "scroll_into_view", "click" }
\* The calls one element gets (crawler.py:242-246, 282-290): nothing when
\* is_visible() raises or answers False, when text_content() raises or the
\* text test fails; else scroll_into_view_if_needed() and, unless that
\* raised, click(). `raising` is the operation that raises, "none" for none.
ElementOps(vis, text_ok, raising) ==
    IF raising = "is_visible" \/ ~vis THEN << >>
    ELSE IF raising = "text_content" \/ ~text_ok THEN << >>
    ELSE IF raising = "scroll_into_view" THEN << "scroll_into_view" >>
    ELSE << "scroll_into_view", "click" >>
Clicks(ops) == \E i \in 1..Len(ops) : ops[i] = "click"

ClickInit ==
    /\ ExpansionDone /\ ExtractionIdle /\ PostInfoIdle /\ SessionIdle
    /\ LoginIdle /\ ProfileIdle /\ page_handle = FALSE
    /\ cpc \in { "open", "replies_query", "seemore_query" }
    /\ cur_sel = 1 /\ cur_btn = 0
    /\ matched = 0 /\ buttons = << >>
    /\ element_ops = << >>
    /\ clicks = 0 /\ clicked_elements = {}
    /\ tried = << >> /\ clicked_by = << >>
    /\ open_result = None

\* crawler.py:125-134: one strategy of _open_comment_section. Every
\* exception of the strategy is caught by the bare except of line 133.
OpenStrategy ==
    /\ cpc = "open"
    /\ \E outcome \in STRATEGY_OUTCOMES :
          /\ tried' = Append(tried, outcome)
          /\ clicked_by' = IF outcome = "visible"
                           THEN Append(clicked_by, cur_sel) ELSE clicked_by
          /\ IF outcome = "visible" /\ AfterClick = "return"
             THEN /\ open_result' = Some(TRUE)
                  /\ cpc' = "opened"
                  /\ UNCHANGED cur_sel
             ELSE IF cur_sel < Len(COMMENT_BUTTON_SELECTORS)
             THEN /\ cur_sel' = cur_sel + 1
                  /\ UNCHANGED << cpc, open_result >>
             ELSE /\ open_result' = Some(FALSE)       \* line 138
                  /\ cpc' = "opened"
                  /\ UNCHANGED cur_sel
    /\ UNCHANGED << cur_btn, matched, buttons, element_ops, clicks,
                    clicked_elements >>
    /\ UNCHANGED outsideClicking

\* crawler.py:150-157: _expand_all_comments drops the result and goes on to
\* the scroll loop.
EnterScrollLoop ==
    /\ cpc = "opened"
    /\ cpc' = "scroll_loop"
    /\ UNCHANGED << cur_sel, cur_btn, matched, buttons, element_ops, clicks,
                    clicked_elements, tried, clicked_by, open_result >>
    /\ UNCHANGED outsideClicking

\* for selector in selectors: on to the next selector's query, or return.
NextQuery(query, n) ==
    IF cur_sel < n
    THEN cur_sel' = cur_sel + 1 /\ cpc' = query
    ELSE cpc' = "returned" /\ UNCHANGED cur_sel

\* crawler.py:239: buttons = query_selector_all(selector); an exception
\* goes to line 249.
RepliesQuery ==
    /\ cpc = "replies_query"
    /\ \/ /\ \E n \in MATCH_COUNTS : matched' = n
          /\ cur_btn' = 0 /\ clicks' = 0 /\ element_ops' = << >>
          /\ cpc' = "replies_each"
          /\ UNCHANGED cur_sel
       \/ /\ NextQuery("replies_query", Len(REPLY_SELECTORS))
          /\ UNCHANGED << matched, cur_btn, clicks, element_ops >>
    /\ UNCHANGED << buttons, clicked_elements, tried, clicked_by, open_result >>
    /\ UNCHANGED outsideClicking

\* crawler.py:240-248: the next element of buttons[:50], or the next selector.
RepliesEach ==
    /\ cpc = "replies_each"
    /\ IF cur_btn < Sliced(matched)
       THEN /\ cur_btn' = cur_btn + 1
            /\ \E vis \in BOOLEAN, raising \in (ELEMENT_OPERATIONS \ { "text_content" }) \cup { "none" } :
                  element_ops' = ElementOps(vis, TRUE, raising)
            /\ clicks' = IF Clicks(element_ops') THEN clicks + 1 ELSE clicks
            /\ UNCHANGED << cpc, cur_sel >>
       ELSE /\ NextQuery("replies_query", Len(REPLY_SELECTORS))
            /\ UNCHANGED << cur_btn, clicks, element_ops >>
    /\ UNCHANGED << matched, buttons, clicked_elements, tried, clicked_by,
                    open_result >>
    /\ UNCHANGED outsideClicking

\* crawler.py:274-275: buttons = query_selector_all(selector); an exception
\* goes to line 292.
SeeMoreQuery ==
    /\ cpc = "seemore_query"
    /\ \/ /\ buttons' \in SeeMoreResults[cur_sel]
          /\ cur_btn' = 0 /\ element_ops' = << >>
          /\ cpc' = "seemore_each"
          /\ UNCHANGED cur_sel
       \/ /\ NextQuery("seemore_query", Len(SEE_MORE_SELECTORS))
          /\ UNCHANGED << buttons, cur_btn, element_ops >>
    /\ UNCHANGED << matched, clicks, clicked_elements, tried, clicked_by,
                    open_result >>
    /\ UNCHANGED outsideClicking

\* crawler.py:277-291: the next element of buttons, or the next selector.
SeeMoreEach ==
    /\ cpc = "seemore_each"
    /\ IF cur_btn < Len(buttons)
       THEN /\ cur_btn' = cur_btn + 1
            /\ \E raising \in ELEMENT_OPERATIONS \cup { "none" } :
                  LET e == buttons[cur_btn + 1]
                  IN  element_ops' = ElementOps(e.vis, IsSeeMoreText(e.text), raising)
            /\ clicked_elements' =
                  IF Clicks(element_ops')
                  THEN clicked_elements \cup { buttons[cur_btn + 1] }
                  ELSE clicked_elements
            /\ UNCHANGED << cpc, cur_sel >>
       ELSE /\ NextQuery("seemore_query", Len(SEE_MORE_SELECTORS))
            /\ UNCHANGED << cur_btn, element_ops, clicked_elements >>
    /\ UNCHANGED << matched, buttons, clicks, tried, clicked_by, open_result >>
    /\ UNCHANGED outsideClicking

ClickNext ==
    \/ OpenStrategy
    \/ EnterScrollLoop
    \/ RepliesQuery
    \/ RepliesEach
    \/ SeeMoreQuery
    \/ SeeMoreEach

ClickSpec == ClickInit /\ [][ClickNext]_vars

\* ---- Derived notions for the claims about the click passes ----
InReplies == cpc \in { "replies_query", "replies_each" }
\* Steps _expand_all_replies can still take: per selector left, the query
\* and at most REPLY_LIMIT elements and the end of the list.
RepliesMeasure ==
    IF ~InReplies THEN 0
    ELSE (Len(REPLY_SELECTORS) - cur_sel + 1) * (REPLY_LIMIT + 2)
         - (IF cpc = "replies_query" THEN 0 ELSE 1 + cur_btn)
\* The first strategy that met a visible, clickable match (0: none).
FirstVisible ==
    IF \E k \in 1..Len(tried) : tried[k] = "visible"
    THEN CHOOSE k \in 1..Len(tried) :
            tried[k] = "visible" /\ \A j \in 1..(k - 1) : tried[j] # "visible"
    ELSE 0

\* C23: _expand_all_replies attempts at most the first 50 elements a
\* selector matched, calls click() only right after scroll_into_view on the
\* same element, so at most 50 times per selector, and terminates: every
\* step decreases a non-negative measure.
C23_RepliesCappedAtFifty ==
    /\ [](InReplies =>
            /\ cur_btn <= REPLY_LIMIT /\ cur_btn <= matched
            /\ clicks <= cur_btn /\ clicks <= REPLY_LIMIT
            /\ (Clicks(element_ops) =>
                    element_ops = << "scroll_into_view", "click" >>)
            /\ RepliesMeasure >= 0)
    /\ [][InReplies => RepliesMeasure' < RepliesMeasure]_vars
\* A selector matched more than 50 elements; the first 50 were all clicked
\* and the pass went on to the next selector.
C23_Witness ==
    /\ cpc = "replies_query" /\ cur_sel = 2
    /\ matched > REPLY_LIMIT
    /\ cur_btn = REPLY_LIMIT /\ clicks = REPLY_LIMIT

\* The elements whose own text holds one of the two labels, in any case.
SeeMoreLabelled ==
    { e \in SEE_MORE_ELEMENTS :
        \/ Contains(Lower(e.text), "see more")
        \/ Contains(Lower(e.text), "lihat selengkapnya") }

\* C24: _expand_see_more_in_comments calls click() only on visible elements
\* whose own text contains 'see more' or 'lihat selengkapnya' in any case,
\* whatever selector matched them.
C24_OnlySeeMoreTextClicked ==
    /\ clicked_elements \subseteq
          { e \in SeeMoreLabelled : e.vis }
    /\ (cpc = "seemore_each" /\ Clicks(element_ops) =>
            /\ buttons[cur_btn].vis
            /\ buttons[cur_btn] \in SeeMoreLabelled)
\* The pass is over; an attribute selector had matched a visible element
\* with another text, which was not clicked, and an upper-case label was.
C24_Witness ==
    /\ cpc = "returned"
    /\ Button(" LIHAT SELENGKAPNYA ", "", FALSE, TRUE) \in clicked_elements
    /\ Len(buttons) = 1
    /\ buttons[1] = Button("Tutup", "Lihat selengkapnya", FALSE, TRUE)
    /\ buttons[1] \notin clicked_elements

AutoNodes(el) == { k \in 1..Len(el.parts) : IsTextElement(el.parts[k]) }
TextOf(el, k) == Strip(el.parts[k].text)
\* Those whose text is neither the author name nor a UI-action label ...
AllowedTexts(el, author) ==
    { k \in AutoNodes(el) :
        TextOf(el, k) # author /\ TextOf(el, k) \notin BUTTON_LABELS }
\* ... and those of them strategy 1 takes for candidates (line 426).
BodyCandidates(el, author) ==
    { k \in AllowedTexts(el, author) : Len(TextOf(el, k)) > 5 }
\* The candidate being processed.
CurrentElement == comment_elements[idx + 1]

\* C26: the raw body is the full node text without the noise substrings
\* only when strategy 1 found no candidate; otherwise it is the longest
\* auto-direction text that is neither the author name nor a UI-action
\* label, the earliest in DOM order among those of maximal length.
C26_LongestAllowedTextOrFallback ==
    epc = "clean" =>
        /\ BodyCandidates(CurrentElement, author_name) = {}
              => comment_text = FullTextWithoutNoise(CurrentElement, author_name)
        /\ BodyCandidates(CurrentElement, author_name) # {}
              => \E k \in AllowedTexts(CurrentElement, author_name) :
                    /\ comment_text = TextOf(CurrentElement, k)
                    /\ \A j \in AllowedTexts(CurrentElement, author_name) :
                          \/ Len(TextOf(CurrentElement, j)) < Len(comment_text)
                          \/ /\ Len(TextOf(CurrentElement, j)) = Len(comment_text)
                             /\ k <= j
\* Two allowed texts of the same, maximal length: the first one is the body.
C26_Witness ==
    /\ epc = "clean"
    /\ \E j, k \in BodyCandidates(CurrentElement, author_name) :
          /\ j < k
          /\ TextOf(CurrentElement, j) # TextOf(CurrentElement, k)
          /\ Len(TextOf(CurrentElement, j)) = Len(TextOf(CurrentElement, k))
          /\ comment_text = TextOf(CurrentElement, j)

\* C27: in every record comment_timestamp is the first link/span text, in
\* DOM order, of at most 50 characters that differs from the record's
\* author name and text and matches a relative-time pattern, and "" when
\* there is none; it never equals the record's author name or text.
C27_TimestampIsFirstEligibleOrEmpty ==
    \A i \in 0..(Len(comment_elements) - 1) : \A n \in RecordsOf(i) :
        LET el == comment_elements[i + 1]
            ts == comments[n].comment_timestamp
            E == EligibleTimestamps(el, comments[n])
        IN  /\ ts # comments[n].comment_author_name
            /\ ts # comments[n].comment_text
            /\ E = {} => ts = ""
            /\ E # {} => \E k \in E :
                            /\ ts = TimeElementTexts(el.parts)[k]
                            /\ \A j \in E : k <= j
\* A record whose text looks like a time and is the text of a span: the
\* timestamp is the link after it; and one whose author name does, with
\* no other candidate: the timestamp is empty.
C27_Witness ==
    /\ epc = "returned" /\ Len(comments) = 1 /\ Len(comment_elements) = 1
    /\ LooksLikeTime(comments[1].comment_text)
    /\ \E k \in 1..Len(TimeElementTexts(comment_elements[1].parts)) :
          TimeElementTexts(comment_elements[1].parts)[k] = comments[1].comment_text
    /\ comments[1].comment_timestamp = "2 jam"

\* The enumerate index a record's comment_id carries (-1: none).
IdIndex(rec) ==
    IF \E i \in 0..(Len(comment_elements) - 1) :
          rec.comment_id = "comment_" \o ToString(i)
    THEN CHOOSE i \in 0..(Len(comment_elements) - 1) :
            rec.comment_id = "comment_" \o ToString(i)
    ELSE -1
\* What the candidate with index i gives when nothing raises.
AuthorOf(i) == ExtractAuthor(comment_elements[i + 1])
TextOfCandidate(i) ==
    CleanText(ExtractBody(comment_elements[i + 1], AuthorOf(i)[1]))

\* C28: the comment_id values of the returned records are pairwise
\* distinct and strictly increasing, each the index of the record's
\* candidate in the discovery result; the records are in discovery order
\* and there are at most as many as candidates.
C28_CommentIdsAreDiscoveryIndexes ==
    /\ Len(comments) <= Len(comment_elements)
    /\ \A n \in 1..Len(comments) :
          /\ IdIndex(comments[n]) \in 0..(Len(comment_elements) - 1)
          /\ IdIndex(comments[n]) < idx
          /\ IdIndex(comments[n]) \notin raised_at
          /\ comments[n].comment_text = TextOfCandidate(IdIndex(comments[n]))
          /\ comments[n].comment_author_url = AuthorOf(IdIndex(comments[n]))[2]
    /\ \A n, m \in 1..Len(comments) :
          n < m => IdIndex(comments[n]) < IdIndex(comments[m])
\* Three candidates, the second gave no record: the ids are 0 and 2.
C28_Witness ==
    /\ epc = "returned"
    /\ Len(comment_elements) = 3 /\ Len(comments) = 2
    /\ comments[1].comment_id = "comment_0"
    /\ comments[2].comment_id = "comment_2"
    /\ comments[1].comment_text # comments[2].comment_text

(***************************************************************************)
(* Properties of the verification loop of login (auth.py:149-165).         *)
(***************************************************************************)
\* An attempt that found the session logged in and no challenge.
Succeeded(v) == v.is_logged_in /\ ~v.has_challenge
LastVerification == verifications[Len(verifications)]

\* C30: after a detected challenge the login status is verified at most 3
\* times; login returns the page, the cookies saved, at the first attempt
\* that finds it logged in with no challenge detected, raises when 3
\* attempts have failed, and never returns on an attempt that still
\* detected a challenge.
C30_AtMostThreeVerifications ==
    /\ [](/\ Len(verifications) <= MAX_RETRIES
          /\ (lpc = "verify" => attempt = Len(verifications))
          /\ \A k \in 1..(Len(verifications) - 1) : ~Succeeded(verifications[k])
          /\ (verifications # << >> =>
                /\ Succeeded(LastVerification) <=> lpc = "returned"
                /\ lpc = "returned" =>
                      /\ ~LastVerification.has_challenge
                      /\ handed = page_id /\ handed # 0
                      /\ store = "fresh"
                      /\ store_ops[Len(store_ops)].op = "write"
                /\ lpc = "raised" =>
                      /\ Len(verifications) = MAX_RETRIES
                      /\ handed = 0))
    /\ [][lpc = "verify" /\ Len(verifications) = MAX_RETRIES
             => lpc' = "raised"]_vars
\* The first two attempts failed, one of them with the session logged in
\* but a challenge still detected; the third succeeded and the page was
\* returned.
C30_Witness ==
    /\ lpc = "returned"
    /\ Len(verifications) = MAX_RETRIES
    /\ \E k \in 1..2 :
          verifications[k].is_logged_in /\ verifications[k].has_challenge
    /\ Succeeded(LastVerification)

====
